---- MODULE Spec2Model ----
(***************************************************************************)
(* The relational filter compiler of api/src/utils/apply-query.ts          *)
(* (src/unnamed/part_000, lines 1-751): applyQuery, applyFilter, addJoin,  *)
(* followRelation, addJoins, addWhereClauses, validateFilterOperator,      *)
(* applyFilterToQuery, getFilterPath and getOperation, as a state machine. *)
(*                                                                         *)
(* One compile invocation is one index i of the per-invocation sequences   *)
(* below.  Invocation 1 is the caller's applyQuery; further invocations    *)
(* are the nested applyQuery calls made by the subquery callbacks that     *)
(* addWhereClauses hands to whereIn / whereNotIn.                          *)
(***************************************************************************)
EXTENDS Integers, Sequences, FiniteSets, TLC

(***************************************************************************)
(* Bounds of the model.                                                    *)
(***************************************************************************)
\* how many different outcomes generateAlias() has
NumAliases == 2

(***************************************************************************)
(* Values of the JSON filter: plain objects (ordered entries, as           *)
(* Object.entries / Object.keys see them), arrays and scalars.             *)
(* A string is its comma-separated parts, so that split(',') is defined.   *)
(***************************************************************************)
Obj(es) == [k |-> "obj", es |-> es]
Arr(xs) == [k |-> "arr", xs |-> xs]
Str(parts) == [k |-> "str", parts |-> parts]
Num(n) == [k |-> "num", n |-> n]
Bool(b) == [k |-> "bool", b |-> b]
Undef == [k |-> "undef"]
NaN == [k |-> "nan"]
E(key, val) == [key |-> key, val |-> val]

\* isPlainObject(value)
isPlainObject(v) == v.k = "obj"

\* Object.keys(value)[0] when value is a plain object with a key; "" stands
\* for a first key that is undefined or an index ("0") of a string or array
FirstKey(v) == IF isPlainObject(v) /\ Len(v.es) > 0 THEN v.es[1].key ELSE ""
\* Object.values(value)[0]
FirstValue(v) == IF isPlainObject(v) /\ Len(v.es) > 0 THEN v.es[1].val ELSE Undef

\* the keys of the vocabulary for which key.startsWith('_') is true
ValuelessOperators == {"_null", "_nnull", "_empty", "_nempty"}
CompareOperators ==
    {"_eq", "_neq", "_ieq", "_nieq", "_contains", "_ncontains", "_icontains",
     "_nicontains", "_starts_with", "_nstarts_with", "_istarts_with",
     "_nistarts_with", "_ends_with", "_nends_with", "_iends_with",
     "_niends_with", "_gt", "_gte", "_lt", "_lte", "_in", "_nin",
     "_between", "_nbetween", "_intersects", "_nintersects",
     "_intersects_bbox", "_nintersects_bbox"}
FilterOperators == ValuelessOperators \cup CompareOperators
startsWithUnderscore(key) ==
    key \in FilterOperators \cup {"_and", "_or", "_some", "_none"}

\* segment.split(':')[0] and segment.split(':')[1] ("" when there is none)
ScopedSegments == {"item:authors", "item:comments"}
PathRoot(seg) == IF seg \in ScopedSegments THEN "item" ELSE seg
PathScope(seg) ==
    CASE seg = "item:authors" -> "authors"
      [] seg = "item:comments" -> "comments"
      [] OTHER -> ""

(***************************************************************************)
(* The schema graph (read-only collaborator): collections, fields with     *)
(* their declared type and special flags, relations.                       *)
(***************************************************************************)
Collections == {"articles", "authors", "comments", "countries"}

\* schema.getCollection(name).primary
Primary(c) == IF c = "countries" THEN "code" ELSE "id"

NoField == [type |-> "", special |-> {}]
Fld(t) == [type |-> t, special |-> {}]

\* schema.getField(collection, field); NoField stands for null
getField(c, f) ==
    CASE c = "articles" /\ f \in {"id", "views", "author"} -> Fld("integer")
      [] c = "articles" /\ f \in {"title", "item", "collection"} -> Fld("string")
      [] c = "articles" /\ f = "token" ->
            [type |-> "string", special |-> {"conceal"}]
      [] c = "articles" /\ f = "comments" -> Fld("alias")
      [] c = "authors" /\ f \in {"id", "age"} -> Fld("integer")
      [] c = "authors" /\ f \in {"name", "country"} -> Fld("string")
      [] c = "authors" /\ f \in {"articles", "usages"} -> Fld("alias")
      [] c = "comments" /\ f \in {"id", "article"} -> Fld("integer")
      [] c = "comments" /\ f = "body" -> Fld("string")
      [] c = "countries" /\ f \in {"code", "name"} -> Fld("string")
      [] OTHER -> NoField

NoRelation ==
    [collection |-> "", field |-> "", related_collection |-> "",
     one_collection_field |-> ""]
Rel(c, f, rc, ocf) ==
    [collection |-> c, field |-> f, related_collection |-> rc,
     one_collection_field |-> ocf]

\* getRelationInfo(relations, collection, field): the relation of a
\* (collection, field) pair and its kind; relationType "" stands for null
getRelationInfo(c, f) ==
    CASE c = "articles" /\ f = "author" ->
            [relation |-> Rel("articles", "author", "authors", ""),
             relationType |-> "m2o"]
      [] c = "authors" /\ f = "country" ->
            [relation |-> Rel("authors", "country", "countries", ""),
             relationType |-> "m2o"]
      [] c = "comments" /\ f = "article" ->
            [relation |-> Rel("comments", "article", "articles", ""),
             relationType |-> "m2o"]
      [] c = "articles" /\ f = "comments" ->
            [relation |-> Rel("comments", "article", "articles", ""),
             relationType |-> "o2m"]
      [] c = "authors" /\ f = "articles" ->
            [relation |-> Rel("articles", "author", "authors", ""),
             relationType |-> "o2m"]
      [] c = "articles" /\ f = "item" ->
            [relation |-> Rel("articles", "item", "", "collection"),
             relationType |-> "a2o"]
      [] c = "authors" /\ f = "usages" ->
            [relation |-> Rel("articles", "item", "authors", "collection"),
             relationType |-> "o2a"]
      [] OTHER -> [relation |-> NoRelation, relationType |-> ""]

\* getFilterOperatorsForType(type), with the leading underscore kept
getFilterOperatorsForType(type) ==
    CASE type \in {"string", "text"} ->
            {"_contains", "_ncontains", "_icontains", "_starts_with",
             "_nstarts_with", "_istarts_with", "_nistarts_with", "_ends_with",
             "_nends_with", "_iends_with", "_niends_with", "_eq", "_neq",
             "_empty", "_nempty", "_null", "_nnull", "_in", "_nin"}
      [] type \in {"integer", "bigInteger", "float", "decimal"} ->
            {"_eq", "_neq", "_lt", "_lte", "_gt", "_gte", "_between",
             "_nbetween", "_null", "_nnull", "_in", "_nin"}
      [] type = "hash" -> {"_null", "_nnull", "_empty", "_nempty"}
      [] OTHER -> FilterOperators

(***************************************************************************)
(* getFilterPath and getOperation.                                         *)
(***************************************************************************)
RECURSIVE getFilterPath(_, _)
getFilterPath(key, value) ==
    IF startsWithUnderscore(FirstKey(value))
    THEN <<key>>
    ELSE IF isPlainObject(value) /\ Len(value.es) > 0
         THEN <<key>> \o getFilterPath(FirstKey(value), FirstValue(value))
         ELSE <<key>>

RECURSIVE getOperation(_, _)
getOperation(key, value) ==
    IF startsWithUnderscore(key) /\ key # "_and" /\ key # "_or"
    THEN [operator |-> key, value |-> value]
    ELSE IF ~isPlainObject(value) \/ Len(value.es) = 0
         THEN [operator |-> "_eq", value |-> value]
         ELSE getOperation(FirstKey(value), FirstValue(value))

(***************************************************************************)
(* The alias map: lodash set / get on a nested object keyed by path        *)
(* segments, here a function from the paths that hold an alias to that     *)
(* alias.  set() at a path replaces a string met on the way by an object   *)
(* and replaces an object at the path by the alias.                        *)
(***************************************************************************)
EmptyMap == [p \in {} |-> ""]
IsPrefix(p, q) == Len(p) <= Len(q) /\ SubSeq(q, 1, Len(p)) = p

AliasSet(m, path, alias) ==
    LET keep == {q \in DOMAIN m : ~IsPrefix(q, path) /\ ~IsPrefix(path, q)}
    IN  [q \in keep \cup {path} |-> IF q = path THEN alias ELSE m[q]]

\* "" stands for undefined; an object found at the path prints as below
ObjectObject == "[object Object]"
AliasGet(m, path) ==
    IF path \in DOMAIN m THEN m[path]
    ELSE IF \E q \in DOMAIN m : IsPrefix(path, q) THEN ObjectObject
    ELSE ""

\* the key under which followRelation records and getColumnPath looks up
AliasKey(parentAlias, pathParts) ==
    IF parentAlias # "" THEN <<parentAlias>> \o pathParts ELSE pathParts

\* the outcomes of generateAlias()
AliasNames == <<"aaaaa", "aaaab", "aaaac", "aaaad">>
Aliases == {AliasNames[n] : n \in 1..NumAliases}

(***************************************************************************)
(* getColumnPath({path, collection, aliasMap, relations}): the column a    *)
(* multi-segment path ends at, <<alias or collection, field>>, and the     *)
(* collection that field belongs to.                                       *)
(***************************************************************************)
ColumnPathError ==
    [err |-> "InvalidQuery", columnPath |-> <<>>, targetCollection |-> ""]

RECURSIVE getColumnPathFrom(_, _, _, _)
getColumnPathFrom(aliasMap, pathParts, parentCollection, parentAlias) ==
    LET info == getRelationInfo(parentCollection, PathRoot(pathParts[1]))
        alias == AliasGet(aliasMap, AliasKey(parentAlias, pathParts))
        remainingParts == Tail(pathParts)
        parent ==
            CASE info.relationType = "a2o" -> PathScope(pathParts[1])
              [] info.relationType = "m2o" -> info.relation.related_collection
              [] OTHER -> info.relation.collection
    IN  IF info.relationType = "" THEN ColumnPathError
        ELSE IF info.relationType = "a2o" /\ PathScope(pathParts[1]) = ""
        THEN ColumnPathError
        ELSE IF Len(remainingParts) = 1
        THEN [err |-> "",
              columnPath |->
                <<IF alias # "" THEN alias ELSE parent, remainingParts[1]>>,
              targetCollection |-> parent]
        ELSE IF Len(remainingParts) > 1
        THEN getColumnPathFrom(aliasMap, remainingParts, parent, alias)
        ELSE [err |-> "", columnPath |-> <<>>, targetCollection |-> ""]

getColumnPath(path, collection, aliasMap) ==
    getColumnPathFrom(aliasMap, path, collection, "")

(***************************************************************************)
(* validateFilterOperator: "" when the operator passes, else the error.    *)
(***************************************************************************)
\* a slip in lines 429-433: only the conceal check is made
validateFilterOperator_concealOnly(type, filterOperator, special) ==
    IF "conceal" \in special
        /\ filterOperator \notin getFilterOperatorsForType("hash")
    THEN "InvalidQuery"
    ELSE ""

validateFilterOperator(type, filterOperator, special) ==
    IF filterOperator \notin getFilterOperatorsForType(type)
    THEN "InvalidQuery"
    ELSE IF "conceal" \in special
            /\ filterOperator \notin getFilterOperatorsForType("hash")
    THEN "InvalidQuery"
    ELSE ""

(***************************************************************************)
(* Value coercion of applyFilterToQuery.                                   *)
(***************************************************************************)
NumericTypes == {"bigInteger", "integer", "float", "decimal"}
NumericTokens == {"1", "2", "3"}
TokenNumber(t) == CASE t = "1" -> 1 [] t = "2" -> 2 [] OTHER -> 3

\* Number(value)
Number(v) ==
    CASE v.k = "num" -> v
      [] v.k = "bool" -> Num(IF v.b THEN 1 ELSE 0)
      [] v.k = "str" /\ Len(v.parts) = 1 /\ v.parts[1] \in NumericTokens ->
            Num(TokenNumber(v.parts[1]))
      [] v.k = "str" /\ v.parts \in {<<>>, <<" ">>} -> Num(0)
      [] v.k = "arr" /\ Len(v.xs) = 1 /\ v.xs[1].k = "num" -> v.xs[1]
      [] OTHER -> NaN

\* compareValue.filter((val) => val !== undefined)
RECURSIVE dropUndefined(_)
dropUndefined(xs) ==
    IF xs = <<>> THEN <<>>
    ELSE (IF Head(xs).k = "undef" THEN <<>> ELSE <<Head(xs)>>)
            \o dropUndefined(Tail(xs))

\* the cast of lines 503-526 on a value whose undefined entries are dropped
castValue(fieldInfo, v) ==
    LET w == IF v.k = "arr" THEN Arr(dropUndefined(v.xs)) ELSE v
    IN  IF fieldInfo # NoField /\ fieldInfo.type \in NumericTypes
        THEN IF w.k = "arr"
             THEN Arr([n \in 1..Len(w.xs) |-> Number(w.xs[n])])
             ELSE Number(w)
        ELSE w

\* value.length: -1 stands for undefined (a number, a boolean, NaN); every
\* part of a string is one character long
Length(v) ==
    CASE v.k = "arr" -> Len(v.xs)
      [] v.k = "str" -> 2 * Len(v.parts) - 1
      [] OTHER -> -1

\* typeof value === 'string' ? value.split(',') : value
splitString(v) ==
    IF v.k = "str"
    THEN Arr([n \in 1..Len(v.parts) |-> Str(<<v.parts[n]>>)])
    ELSE v

\* value.toLowerCase() of a string
LowerToken(t) == CASE t = "X" -> "x" [] t = "Y" -> "y" [] OTHER -> t
toLowerCase(v) == Str([n \in 1..Len(v.parts) |-> LowerToken(v.parts[n])])

(***************************************************************************)
(* applyFilterToQuery: the WHERE fragments one leaf adds to the builder,   *)
(* each with the combinator set by dbQuery[logical].                       *)
(***************************************************************************)
Cl(logical, fn, col, cmp, val) ==
    [bool |-> logical, fn |-> fn, col |-> col, cmp |-> cmp, val |-> val]
Like(pre, v, post) == [k |-> "like", pre |-> pre, body |-> v, post |-> post]

\* lines 460-479: the operators that need no value
valuelessClauses(key, operator, compareValue, logical) ==
    (IF operator = "_null"
        \/ (operator = "_nnull" /\ compareValue = Bool(FALSE))
     THEN <<Cl(logical, "whereNull", key, "", Undef)>> ELSE <<>>)
    \o
    (IF operator = "_nnull"
        \/ (operator = "_null" /\ compareValue = Bool(FALSE))
     THEN <<Cl(logical, "whereNotNull", key, "", Undef)>> ELSE <<>>)
    \o
    (IF operator = "_empty"
        \/ (operator = "_nempty" /\ compareValue = Bool(FALSE))
     THEN <<Cl(logical, "whereWrapped", key, "=", Str(<<>>))>> ELSE <<>>)
    \o
    (IF operator = "_nempty"
        \/ (operator = "_empty" /\ compareValue = Bool(FALSE))
     THEN <<Cl(logical, "whereWrapped", key, "!=", Str(<<>>))>> ELSE <<>>)

\* the operators that call compareValue.toLowerCase()
LowerCaseOperators ==
    {"_ieq", "_nieq", "_icontains", "_nicontains", "_istarts_with",
     "_nistarts_with", "_iends_with", "_niends_with"}

\* a slip at line 484: the check for a missing value left out
valueAbsent_never(compareValue) == FALSE

\* line 484: the operators below are ignored when no value is passed
valueAbsent(compareValue) == compareValue = Undef

\* lines 623, 632: _between / _nbetween return without a clause
wrongBounds(compareValue) == Length(compareValue) # 2

\* lines 528-654: the operators that use the (cast) value
compareClauses(key, operator, v, logical) ==
    CASE operator = "_eq" -> <<Cl(logical, "where", key, "=", v)>>
      [] operator = "_neq" -> <<Cl(logical, "whereNot", key, "=", v)>>
      [] operator = "_ieq" ->
            <<Cl(logical, "whereRaw", key, "LOWER(??) = ?", toLowerCase(v))>>
      [] operator = "_nieq" ->
            <<Cl(logical, "whereRaw", key, "LOWER(??) <> ?", toLowerCase(v))>>
      [] operator = "_contains" ->
            <<Cl(logical, "where", key, "like", Like(TRUE, v, TRUE))>>
      [] operator = "_ncontains" ->
            <<Cl(logical, "whereNot", key, "like", Like(TRUE, v, TRUE))>>
      [] operator = "_icontains" ->
            <<Cl(logical, "whereRaw", key, "LOWER(??) LIKE ?",
                 Like(TRUE, toLowerCase(v), TRUE))>>
      [] operator = "_nicontains" ->
            <<Cl(logical, "whereRaw", key, "LOWER(??) NOT LIKE ?",
                 Like(TRUE, toLowerCase(v), TRUE))>>
      [] operator = "_starts_with" ->
            <<Cl(logical, "where", key, "like", Like(FALSE, v, TRUE))>>
      [] operator = "_nstarts_with" ->
            <<Cl(logical, "whereNot", key, "like", Like(FALSE, v, TRUE))>>
      [] operator = "_istarts_with" ->
            <<Cl(logical, "whereRaw", key, "LOWER(??) LIKE ?",
                 Like(FALSE, toLowerCase(v), TRUE))>>
      [] operator = "_nistarts_with" ->
            <<Cl(logical, "whereRaw", key, "LOWER(??) NOT LIKE ?",
                 Like(FALSE, toLowerCase(v), TRUE))>>
      [] operator = "_ends_with" ->
            <<Cl(logical, "where", key, "like", Like(TRUE, v, FALSE))>>
      [] operator = "_nends_with" ->
            <<Cl(logical, "whereNot", key, "like", Like(TRUE, v, FALSE))>>
      [] operator = "_iends_with" ->
            <<Cl(logical, "whereRaw", key, "LOWER(??) LIKE ?",
                 Like(TRUE, toLowerCase(v), FALSE))>>
      [] operator = "_niends_with" ->
            <<Cl(logical, "whereRaw", key, "LOWER(??) NOT LIKE ?",
                 Like(TRUE, toLowerCase(v), FALSE))>>
      [] operator = "_gt" -> <<Cl(logical, "where", key, ">", v)>>
      [] operator = "_gte" -> <<Cl(logical, "where", key, ">=", v)>>
      [] operator = "_lt" -> <<Cl(logical, "where", key, "<", v)>>
      [] operator = "_lte" -> <<Cl(logical, "where", key, "<=", v)>>
      [] operator = "_in" ->
            <<Cl(logical, "whereIn", key, "", splitString(v))>>
      [] operator = "_nin" ->
            <<Cl(logical, "whereNotIn", key, "", splitString(v))>>
      [] operator = "_between" ->
            IF wrongBounds(v) THEN <<>>
            ELSE <<Cl(logical, "whereBetween", key, "", splitString(v))>>
      [] operator = "_nbetween" ->
            IF wrongBounds(v) THEN <<>>
            ELSE <<Cl(logical, "whereNotBetween", key, "", splitString(v))>>
      [] operator = "_intersects" ->
            <<Cl(logical, "whereRaw", key, "st.intersects", v)>>
      [] operator = "_nintersects" ->
            <<Cl(logical, "whereRaw", key, "st.nintersects", v)>>
      [] operator = "_intersects_bbox" ->
            <<Cl(logical, "whereRaw", key, "st.intersects_bbox", v)>>
      [] operator = "_nintersects_bbox" ->
            <<Cl(logical, "whereRaw", key, "st.nintersects_bbox", v)>>
      [] OTHER -> <<>>

\* key is <<table, column>>; originalCollectionName "" stands for undefined.
\* No column of the vocabulary is a function call and no field is of a date
\* type, so the casts of lines 494-501 and 511-517 do not apply.
applyFilterToQuery(key, operator, compareValue, logical, originalCollectionName) ==
    LET mappedCollection ==
            IF originalCollectionName # "" THEN originalCollectionName
            ELSE key[1]
        fieldInfo == getField(mappedCollection, key[2])
        first == valuelessClauses(key, operator, compareValue, logical)
    IN  IF valueAbsent(compareValue) THEN [err |-> "", clauses |-> first]
        ELSE LET v == castValue(fieldInfo, compareValue)
             IN  IF operator \in LowerCaseOperators /\ v.k # "str"
                 THEN [err |-> "TypeError", clauses |-> first]
                 ELSE [err |-> "",
                       clauses |->
                         first \o compareClauses(key, operator, v, logical)]

(***************************************************************************)
(* The two passes of applyFilter over the filter tree.  The order in which *)
(* addJoins and addWhereClauses visit the leaves is computed here; what    *)
(* they do at each leaf is an action below.  pos is the place of a leaf in *)
(* the tree: entry index, child index, entry index, ...                    *)
(***************************************************************************)
\* a slip at lines 311, 348: only the first child is looked at
orShortCircuits_firstOnly(key, value) ==
    key = "_or" /\ Len(value.xs) > 0 /\ Len(value.xs[1].es) = 0

\* lines 311, 348: an _or array with an empty object is skipped whole
orShortCircuits(key, value) ==
    key = "_or" /\ \E n \in 1..Len(value.xs) : Len(value.xs[n].es) = 0

\* line 354: the combinator handed to the children of a logical node
childLogical(key) == IF key = "_and" THEN "and" ELSE "or"

RECURSIVE addJoinsEntries(_, _, _), addJoinsChildren(_, _, _)
addJoinsEntries(filter, pos, n) ==
    IF n > Len(filter.es) THEN <<>>
    ELSE LET key == filter.es[n].key
             value == filter.es[n].val
             here ==
               IF key = "_or" \/ key = "_and"
               THEN IF orShortCircuits(key, value) THEN <<>>
                    ELSE addJoinsChildren(value.xs, pos \o <<n>>, 1)
               ELSE IF Len(getFilterPath(key, value)) > 1
                    THEN <<[path |-> getFilterPath(key, value),
                            pos |-> pos \o <<n>>]>>
                    ELSE <<>>
         IN  here \o addJoinsEntries(filter, pos, n + 1)
addJoinsChildren(children, pos, m) ==
    IF m > Len(children) THEN <<>>
    ELSE addJoinsEntries(children[m], pos \o <<m>>, 1)
            \o addJoinsChildren(children, pos, m + 1)

\* the addJoin calls of the join pass, in order
addJoinsItems(filter) == addJoinsEntries(filter, <<>>, 1)

RECURSIVE addWhereEntries(_, _, _, _), addWhereChildren(_, _, _, _)
addWhereEntries(filter, pos, logical, n) ==
    IF n > Len(filter.es) THEN <<>>
    ELSE LET key == filter.es[n].key
             value == filter.es[n].val
             here ==
               IF key = "_or" \/ key = "_and"
               THEN IF orShortCircuits(key, value) THEN <<>>
                    ELSE addWhereChildren(value.xs, pos \o <<n>>,
                                          childLogical(key), 1)
               ELSE <<[key |-> key, value |-> value, logical |-> logical,
                       pos |-> pos \o <<n>>]>>
         IN  here \o addWhereEntries(filter, pos, logical, n + 1)
addWhereChildren(children, pos, logical, m) ==
    IF m > Len(children) THEN <<>>
    ELSE addWhereEntries(children[m], pos \o <<m>>, logical, 1)
            \o addWhereChildren(children, pos, logical, m + 1)

\* the leaves of the predicate pass, in order, each with its combinator
addWhereItems(filter) == addWhereEntries(filter, <<>>, "and", 1)

(***************************************************************************)
(* followRelation: one hop of addJoin.                                     *)
(***************************************************************************)
NoHop ==
    [active |-> FALSE, pathParts |-> <<>>, parentCollection |-> "",
     parentAlias |-> "", pos |-> <<>>]

\* a slip at line 156: the check for the scope left out
scopeMissing_never(segment) == FALSE

\* line 156: the a2o segment carries no scope
scopeMissing(segment) == PathScope(segment) = ""

\* a slip at line 194: every o2m hop joined
joinsO2M_always(subQuery, parentAlias) == TRUE

\* line 194: whether an o2m hop is joined
joinsO2M(subQuery, parentAlias) == subQuery = TRUE \/ parentAlias # ""

\* line 202: whether the remaining segments are resolved
descends(relationType, subQuery, parentAlias) ==
    \/ relationType = "m2o"
    \/ subQuery = TRUE
    \/ (relationType = "o2m" /\ parentAlias # "")

\* lines 203-219: the collection the remaining segments start from
hopParent(relationType, relation, segment) ==
    CASE relationType = "m2o" -> relation.related_collection
      [] relationType = "a2o" -> PathScope(segment)
      [] OTHER -> relation.collection

\* a slip at line 149: the m2o join written on the parent's primary key
hopJoins_parentKey(relationType, relation, segment, parentCollection, parentAlias, alias, subQuery) ==
    LET parent == IF parentAlias # "" THEN parentAlias ELSE parentCollection
    IN  CASE relationType = "m2o" ->
              <<[type |-> "m2o", alias |-> alias,
                 table |-> relation.related_collection, onVal |-> <<>>,
                 left |-> <<parent, relation.field>>,
                 right |-> <<alias, Primary(parentCollection)>>,
                 cast |-> ""]>>
          [] relationType = "a2o" ->
              <<[type |-> "a2o", alias |-> alias,
                 table |-> PathScope(segment),
                 onVal |-> <<relation.one_collection_field, PathScope(segment)>>,
                 left |-> <<parent, relation.field>>,
                 right |-> <<alias, Primary(PathScope(segment))>>,
                 cast |-> "right"]>>
          [] relationType = "o2a" ->
              <<[type |-> "o2a", alias |-> alias,
                 table |-> relation.collection,
                 onVal |-> <<relation.one_collection_field, parentCollection>>,
                 left |-> <<alias, relation.field>>,
                 right |-> <<parent, Primary(parentCollection)>>,
                 cast |-> "right"]>>
          [] relationType = "o2m" /\ joinsO2M(subQuery, parentAlias) ->
              <<[type |-> "o2m", alias |-> alias,
                 table |-> relation.collection, onVal |-> <<>>,
                 left |-> <<parent, Primary(relation.related_collection)>>,
                 right |-> <<alias, relation.field>>,
                 cast |-> ""]>>
          [] OTHER -> <<>>

\* lines 145-200: the leftJoin calls of one hop
hopJoins(relationType, relation, segment, parentCollection, parentAlias, alias, subQuery) ==
    LET parent == IF parentAlias # "" THEN parentAlias ELSE parentCollection
    IN  CASE relationType = "m2o" ->
              <<[type |-> "m2o", alias |-> alias,
                 table |-> relation.related_collection, onVal |-> <<>>,
                 left |-> <<parent, relation.field>>,
                 right |-> <<alias, Primary(relation.related_collection)>>,
                 cast |-> ""]>>
          [] relationType = "a2o" ->
              <<[type |-> "a2o", alias |-> alias,
                 table |-> PathScope(segment),
                 onVal |-> <<relation.one_collection_field, PathScope(segment)>>,
                 left |-> <<parent, relation.field>>,
                 right |-> <<alias, Primary(PathScope(segment))>>,
                 cast |-> "right"]>>
          [] relationType = "o2a" ->
              <<[type |-> "o2a", alias |-> alias,
                 table |-> relation.collection,
                 onVal |-> <<relation.one_collection_field, parentCollection>>,
                 left |-> <<alias, relation.field>>,
                 right |-> <<parent, Primary(parentCollection)>>,
                 cast |-> "right"]>>
          [] relationType = "o2m" /\ joinsO2M(subQuery, parentAlias) ->
              <<[type |-> "o2m", alias |-> alias,
                 table |-> relation.collection, onVal |-> <<>>,
                 left |-> <<parent, Primary(relation.related_collection)>>,
                 right |-> <<alias, relation.field>>,
                 cast |-> ""]>>
          [] OTHER -> <<>>

(***************************************************************************)
(* addWhereClauses at one leaf.                                            *)
(***************************************************************************)
Last(seq) == seq[Len(seq)]

\* lines 377-381 and 383-387: look the field up, validate, emit
scalarLeaf(columnPath, field, operation, logical, originalCollectionName) ==
    IF field = NoField THEN [err |-> "TypeError", clauses |-> <<>>]
    ELSE IF validateFilterOperator(field.type, operation.operator,
                                   field.special) # ""
    THEN [err |-> "InvalidQuery", clauses |-> <<>>]
    ELSE applyFilterToQuery(columnPath, operation.operator, operation.value,
                            logical, originalCollectionName)

\* a slip at line 414: the two sentinels taken for each other
isNone_swapped(value) == FirstKey(value) = "_some"

\* line 414: the sentinel that asks for NOT IN
isNone(value) == FirstKey(value) = "_none"

\* lines 414-420: the filter handed to subQueryBuilder
subFilter(value) ==
    IF FirstKey(value) = "_none" \/ FirstKey(value) = "_some"
    THEN FirstValue(value)
    ELSE value

\* lines 392-420: the IN / NOT IN clause with the subquery callback
toManyClause(logical, collection, relationType, relation, value) ==
    Cl(logical,
       IF isNone(value) THEN "whereNotIn" ELSE "whereIn",
       <<collection, Primary(relation.related_collection)>>,
       IF relationType = "o2a" THEN "CAST(?? AS CHAR(255))" ELSE "",
       [k |-> "callback", filter |-> subFilter(value),
        field |-> relation.field, collection |-> relation.collection])

\* line 389: whether a to-many leaf is compiled as a subquery
compilesSubQuery(subQuery, filterPath) ==
    subQuery = FALSE \/ Len(filterPath) > 1

\* lines 360-421
whereLeaf(item, collection, subQuery, aliasMap) ==
    LET filterPath == getFilterPath(item.key, item.value)
        info == getRelationInfo(collection, PathRoot(filterPath[1]))
        operation == getOperation(item.key, item.value)
    IN  IF info.relationType \in {"m2o", "a2o", ""}
        THEN IF Len(filterPath) > 1
             THEN LET cp == getColumnPath(filterPath, collection, aliasMap)
                  IN  IF cp.err # "" THEN [err |-> cp.err, clauses |-> <<>>]
                      ELSE IF cp.columnPath = <<>>
                      THEN [err |-> "", clauses |-> <<>>]
                      ELSE scalarLeaf(cp.columnPath,
                                      getField(cp.targetCollection,
                                               Last(filterPath)),
                                      operation, item.logical,
                                      cp.targetCollection)
             ELSE scalarLeaf(<<collection, filterPath[1]>>,
                             getField(collection, filterPath[1]),
                             operation, item.logical, "")
        ELSE IF compilesSubQuery(subQuery, filterPath)
        THEN [err |-> "",
              clauses |-> <<toManyClause(item.logical, collection,
                                         info.relationType, info.relation,
                                         item.value)>>]
        ELSE [err |-> "", clauses |-> <<>>]

(***************************************************************************)
(* The filters the compiler is run on.                                     *)
(***************************************************************************)
Leaf(field, operator, v) == E(field, Obj(<<E(operator, v)>>))
RECURSIVE PathLeaf(_, _, _)
PathLeaf(path, operator, v) ==
    IF Len(path) = 1 THEN Leaf(path[1], operator, v)
    ELSE E(path[1], Obj(<<PathLeaf(Tail(path), operator, v)>>))
And(children) == E("_and", Arr(children))
Or(children) == E("_or", Arr(children))
F1(e) == Obj(<<e>>)
F2(e1, e2) == Obj(<<e1, e2>>)
Seqs12(S) == {<<x>> : x \in S} \cup {<<x, y>> : x \in S, y \in S}

\* three leaf predicates on scalar fields of articles
LeafA == Leaf("title", "_eq", Str(<<"x">>))
LeafB == Leaf("views", "_gt", Num(1))
LeafC == Leaf("id", "_eq", Num(2))

\* filter trees of _and / _or over the three leaves, nested twice, with
\* empty objects and two-key objects among the children
LogicChildren == {Obj(<<>>), F1(LeafA), F1(LeafB), F2(LeafA, LeafB)}
LogicNodes ==
    {And(cs) : cs \in Seqs12(LogicChildren)}
        \cup {Or(cs) : cs \in Seqs12(LogicChildren)}
LogicFilters ==
    {F1(n) : n \in LogicNodes}
        \cup {F2(n, LeafC) : n \in LogicNodes}
        \cup {F1(And(<<F1(n), F1(LeafC)>>)) : n \in LogicNodes}
        \cup {F1(Or(<<F1(n), F1(LeafC)>>)) : n \in LogicNodes}
        \cup {F1(Or(<<F1(LeafC), F1(n)>>)) : n \in LogicNodes}

\* one leaf on a scalar field, for every operator and a range of values
ScalarValues ==
    {Undef, Bool(TRUE), Bool(FALSE), Num(1), Str(<<"x">>), Str(<<"X">>),
     Str(<<"1", "2">>), Arr(<<>>), Arr(<<Num(1)>>), Arr(<<Num(1), Num(2)>>),
     Arr(<<Str(<<"1">>), Str(<<"2">>)>>), Arr(<<Undef, Num(1), Num(2)>>),
     Arr(<<Num(1), Num(2), Num(3)>>)}
ScalarLeaves ==
    {Leaf(f, op, v) : f \in {"title", "views"}, op \in FilterOperators,
                      v \in ScalarValues}
ScalarFilters ==
    {F1(l) : l \in ScalarLeaves}
        \cup {F1(E("title", Str(<<"x">>))), F1(E("views", Num(1))),
              F1(Leaf("token", "_eq", Str(<<"x">>))),
              F1(Leaf("token", "_nnull", Bool(TRUE))),
              F1(E("views", Obj(<<E("_gt", Num(1)), E("_lt", Num(3))>>))),
              F1(E("title", Obj(<<E("_eq", Str(<<"x">>)),
                                  E("_gt", Num(1))>>))),
              F2(LeafA, Leaf("views", "_between", Arr(<<Num(1)>>))),
              F2(Leaf("title", "_null", Bool(FALSE)), LeafB),
              F2(LeafB, Leaf("title", "_gt", Num(1)))}

\* leaves whose path crosses relations
SomeBody == Obj(<<E("_some", F1(Leaf("body", "_eq", Str(<<"x">>))))>>)
NoneBody == Obj(<<E("_none", F1(Leaf("body", "_eq", Str(<<"x">>))))>>)
RelationLeaves ==
    {PathLeaf(<<"author", "name">>, "_eq", Str(<<"x">>)),
     PathLeaf(<<"author", "age">>, "_gt", Num(1)),
     PathLeaf(<<"author", "name">>, "_gt", Num(1)),
     PathLeaf(<<"author", "country">>, "_eq", Str(<<"x">>)),
     PathLeaf(<<"author", "country", "name">>, "_eq", Str(<<"x">>)),
     PathLeaf(<<"author", "articles", "title">>, "_eq", Str(<<"x">>)),
     PathLeaf(<<"item:authors", "name">>, "_eq", Str(<<"x">>)),
     PathLeaf(<<"item:authors", "name">>, "_between", Num(1)),
     PathLeaf(<<"item", "name">>, "_eq", Str(<<"x">>)),
     Leaf("item", "_eq", Str(<<"1">>)),
     Leaf("author", "_eq", Num(1)),
     Leaf("author", "_contains", Str(<<"x">>)),
     E("comments", SomeBody),
     E("comments", NoneBody),
     PathLeaf(<<"comments", "body">>, "_eq", Str(<<"x">>)),
     PathLeaf(<<"comments", "body">>, "_gt", Num(1)),
     E("comments", Obj(<<E("_some",
          F1(PathLeaf(<<"article", "title">>, "_eq", Str(<<"x">>))))>>)),
     E("comments", Obj(<<E("_none",
          F1(PathLeaf(<<"article", "item", "name">>, "_eq", Str(<<"x">>))))>>)),
     E("comments", Obj(<<E("_some",
          F1(PathLeaf(<<"article", "comments", "body">>, "_eq",
                      Str(<<"x">>))))>>))}
RelationFilters ==
    {F1(l) : l \in RelationLeaves}
        \cup {F2(l, LeafA) : l \in RelationLeaves}
        \cup {F1(And(<<F1(l1), F1(l2)>>)) :
                l1 \in RelationLeaves, l2 \in RelationLeaves}
        \cup {F1(Or(<<F1(l), Obj(<<>>)>>)) : l \in RelationLeaves}
        \cup {F1(Or(<<F1(l), F1(LeafA)>>)) : l \in RelationLeaves}

\* filters on authors, whose relations are o2m, o2a and m2o
AuthorFilters ==
    {F1(E("usages", Obj(<<E("_some", F1(LeafA))>>))),
     F1(E("usages", Obj(<<E("_none", F1(LeafA))>>))),
     F1(PathLeaf(<<"usages", "title">>, "_eq", Str(<<"x">>))),
     F1(PathLeaf(<<"articles", "title">>, "_eq", Str(<<"x">>))),
     F1(E("articles", Obj(<<E("_some", F1(LeafB))>>))),
     F1(PathLeaf(<<"articles", "item", "name">>, "_eq", Str(<<"x">>))),
     F1(PathLeaf(<<"articles", "item:authors", "name">>, "_eq", Str(<<"x">>))),
     F1(PathLeaf(<<"country", "name">>, "_eq", Str(<<"x">>))),
     F1(Leaf("name", "_eq", Str(<<"x">>)))}

\* filters on comments whose path takes an a2o hop under an m2o hop
CommentFilters ==
    {F1(PathLeaf(<<"article", "item:authors", "name">>, "_eq", Str(<<"x">>))),
     F1(PathLeaf(<<"article", "item:authors", "country", "name">>, "_eq",
                 Str(<<"x">>)))}

\* the calls of the caller: collection, filter, subQuery
Call(c, f, sq) == [collection |-> c, filter |-> f, subQuery |-> sq]
Inputs ==
    {Call("articles", f, FALSE) :
        f \in LogicFilters \cup ScalarFilters \cup RelationFilters}
        \cup {Call("articles", F1(l), TRUE) : l \in RelationLeaves}
        \cup {Call("authors", f, sq) : f \in AuthorFilters, sq \in BOOLEAN}
        \cup {Call("comments", f, FALSE) : f \in CommentFilters}

(***************************************************************************)
(* State.  inv[i] is compile invocation i (applyQuery -> applyFilter) and  *)
(* query[i] the query builder it was given.                                *)
(***************************************************************************)
VARIABLES inv, query
vars == <<inv, query>>

NotCompiled == [compiled |-> FALSE, joins |-> <<>>, wheres |-> <<>>]
NoBase == [select |-> <<>>, from |-> "", whereNotNull |-> <<>>]

NewInvocation(c, f, sq, by) ==
    [collection |-> c, rootFilter |-> f, subQuery |-> sq, phase |-> "called",
     aliasMap |-> EmptyMap, joinQueue |-> <<>>, hop |-> NoHop,
     whereQueue |-> <<>>, err |-> "", spawnedBy |-> by]

Init ==
    \E call \in Inputs :
        /\ inv = <<NewInvocation(call.collection, call.filter,
                                 call.subQuery, 0)>>
        /\ query = <<[base |-> NoBase, joins |-> <<>>, wheres |-> <<>>,
                      sql |-> NotCompiled]>>

Invocations == 1..Len(inv)

(***************************************************************************)
(* Actions.                                                                *)
(***************************************************************************)
\* a compile that adds to the builder of the outermost compile instead of
\* the one it was called with
rootQuery_parent(i) == 1

\* lines 291 and 411: the builder an invocation adds to is the one it was
\* called with, for a nested compile the subQueryKnex of its callback
rootQuery(i) == i

\* applyQuery -> applyFilter, lines 67-68 and 296-301: resumed after
\* schema.getRelations(), the invocation makes its alias map and starts the
\* join pass
ApplyFilter(i) ==
    /\ inv[i].phase = "called"
    /\ inv' = [inv EXCEPT ![i].phase = "joins",
                          ![i].aliasMap = EmptyMap,
                          ![i].joinQueue = addJoinsItems(inv[i].rootFilter)]
    /\ UNCHANGED query

\* addJoins, lines 321-333: the next leaf of the join pass calls addJoin
\* (lines 124-126); after the last one the predicate pass starts (line 302)
AddJoins(i) ==
    /\ inv[i].phase = "joins"
    /\ ~inv[i].hop.active
    /\ inv' =
        IF inv[i].joinQueue = <<>>
        THEN [inv EXCEPT ![i].phase = "where",
                         ![i].whereQueue = addWhereItems(inv[i].rootFilter)]
        ELSE [inv EXCEPT ![i].joinQueue = Tail(@),
                         ![i].hop =
                            [active |-> TRUE,
                             pathParts |-> Head(inv[i].joinQueue).path,
                             parentCollection |-> inv[i].collection,
                             parentAlias |-> "",
                             pos |-> Head(inv[i].joinQueue).pos]]
    /\ UNCHANGED query

\* the joins of a hop with the leaf they were made for and the alias-map
\* key of the hop (both only recorded, the builder does not hold them)
TagJoins(js, key, pos) ==
    [n \in 1..Len(js) |->
        [type |-> js[n].type, alias |-> js[n].alias, table |-> js[n].table,
         onVal |-> js[n].onVal, left |-> js[n].left, right |-> js[n].right,
         cast |-> js[n].cast, key |-> key, pos |-> pos]]

\* followRelation, lines 128-226: one hop
FollowRelation(i) ==
    /\ inv[i].phase = "joins"
    /\ inv[i].hop.active
    /\ LET h == inv[i].hop
           segment == h.pathParts[1]
           info == getRelationInfo(h.parentCollection, PathRoot(segment))
           key == AliasKey(h.parentAlias, h.pathParts)
       IN  IF info.relationType = ""
           THEN /\ inv' = [inv EXCEPT ![i].hop = NoHop]
                /\ UNCHANGED query
           ELSE \E alias \in Aliases :
                  IF info.relationType = "a2o" /\ scopeMissing(segment)
                  THEN /\ inv' = [inv EXCEPT
                            ![i].aliasMap = AliasSet(@, key, alias),
                            ![i].hop = NoHop,
                            ![i].phase = "threw",
                            ![i].err = "InvalidQuery"]
                       /\ UNCHANGED query
                  ELSE /\ query' = [query EXCEPT ![rootQuery(i)].joins =
                            @ \o TagJoins(
                                    hopJoins(info.relationType, info.relation,
                                             segment, h.parentCollection,
                                             h.parentAlias, alias,
                                             inv[i].subQuery),
                                    key, h.pos)]
                       /\ inv' = [inv EXCEPT
                            ![i].aliasMap = AliasSet(@, key, alias),
                            ![i].hop =
                              IF descends(info.relationType, inv[i].subQuery,
                                          h.parentAlias)
                                 /\ Len(h.pathParts) > 1
                              THEN [active |-> TRUE,
                                    pathParts |-> Tail(h.pathParts),
                                    parentCollection |->
                                      hopParent(info.relationType,
                                                info.relation, segment),
                                    parentAlias |-> alias,
                                    pos |-> h.pos]
                              ELSE NoHop]

\* the clauses of a leaf with the place of the leaf (only recorded)
TagClauses(cs, pos) ==
    [n \in 1..Len(cs) |->
        [bool |-> cs[n].bool, fn |-> cs[n].fn, col |-> cs[n].col,
         cmp |-> cs[n].cmp, val |-> cs[n].val, pos |-> pos]]

\* addWhereClauses, lines 344-422: the next leaf of the predicate pass;
\* after the last one applyFilter and applyQuery return the builder
\* (lines 304, 71)
AddWhereClauses(i) ==
    /\ inv[i].phase = "where"
    /\ IF inv[i].whereQueue = <<>>
       THEN /\ inv' = [inv EXCEPT ![i].phase = "returned"]
            /\ UNCHANGED query
       ELSE LET item == Head(inv[i].whereQueue)
                r == whereLeaf(item, inv[i].collection, inv[i].subQuery,
                               inv[i].aliasMap)
            IN  /\ query' = [query EXCEPT ![rootQuery(i)].wheres =
                                @ \o TagClauses(r.clauses, item.pos)]
                /\ inv' =
                    IF r.err # ""
                    THEN [inv EXCEPT ![i].phase = "threw", ![i].err = r.err]
                    ELSE [inv EXCEPT ![i].whereQueue = Tail(@)]

\* the places of the clauses of a builder that hold a subquery callback
RECURSIVE callbackClauses(_, _)
callbackClauses(wheres, n) ==
    IF n > Len(wheres) THEN <<>>
    ELSE (IF wheres[n].val.k = "callback" THEN <<n>> ELSE <<>>)
            \o callbackClauses(wheres, n + 1)

\* The caller turns the returned builder into SQL.  The builder calls each
\* callback given to whereIn / whereNotIn (lines 400-411) and does not wait
\* for the promise it returns: the callback sets select, from and
\* whereNotNull, calls applyQuery, which is suspended at its first await
\* (line 297), and the subquery is rendered as it is at that moment.
CompileSQL ==
    /\ inv[1].phase = "returned"
    /\ ~query[1].sql.compiled
    /\ LET cbs == callbackClauses(query[1].wheres, 1)
           cb(n) == query[1].wheres[cbs[n]].val
       IN  /\ inv' = inv \o
                [n \in 1..Len(cbs) |->
                    NewInvocation(cb(n).collection, cb(n).filter, TRUE,
                                  cbs[n])]
           /\ query' =
                [query EXCEPT ![1].sql =
                    [compiled |-> TRUE, joins |-> query[1].joins,
                     wheres |-> query[1].wheres]]
                \o
                [n \in 1..Len(cbs) |->
                    [base |->
                        [select |-> <<cb(n).field, cb(n).collection,
                                      cb(n).field>>,
                         from |-> cb(n).collection,
                         whereNotNull |-> <<cb(n).collection, cb(n).field>>],
                     joins |-> <<>>, wheres |-> <<>>,
                     sql |-> [compiled |-> TRUE, joins |-> <<>>,
                              wheres |-> <<>>]]]

Next ==
    \/ \E i \in Invocations : ApplyFilter(i)
    \/ \E i \in Invocations : AddJoins(i)
    \/ \E i \in Invocations : FollowRelation(i)
    \/ \E i \in Invocations : AddWhereClauses(i)
    \/ CompileSQL

Spec == Init /\ [][Next]_vars

(***************************************************************************)
(* What the filter tree means, read off the tree itself.                   *)
(***************************************************************************)
HasEmptyObject(children) ==
    \E m \in 1..Len(children) : children[m] = Obj(<<>>)

\* the entry of the leaf at a place of the tree
RECURSIVE LeafAt(_, _)
LeafAt(filter, pos) ==
    IF Len(pos) = 1 THEN filter.es[pos[1]]
    ELSE LeafAt(filter.es[pos[1]].val.xs[pos[2]], SubSeq(pos, 3, Len(pos)))

\* whether the place lies inside an _or array that holds an empty object
RECURSIVE InsideOpenOr(_, _)
InsideOpenOr(filter, pos) ==
    IF Len(pos) < 3 THEN FALSE
    ELSE LET e == filter.es[pos[1]]
         IN  \/ (e.key = "_or" /\ HasEmptyObject(e.val.xs))
             \/ InsideOpenOr(e.val.xs[pos[2]], SubSeq(pos, 3, Len(pos)))

\* the places of all leaves of a filter
RECURSIVE LeafPositions(_, _)
LeafPositions(filter, prefix) ==
    UNION {IF filter.es[n].key \in {"_and", "_or"}
           THEN UNION {LeafPositions(filter.es[n].val.xs[m],
                                     prefix \o <<n, m>>) :
                        m \in 1..Len(filter.es[n].val.xs)}
           ELSE {prefix \o <<n>>} :
           n \in 1..Len(filter.es)}

\* whether every object of the tree has a key (none is the always-true {})
RECURSIVE NoEmptyObject(_)
NoEmptyObject(filter) ==
    /\ filter.es # <<>>
    /\ \A n \in 1..Len(filter.es) :
          filter.es[n].key \in {"_and", "_or"}
              => \A m \in 1..Len(filter.es[n].val.xs) :
                    NoEmptyObject(filter.es[n].val.xs[m])

\* A row is the set of the fields whose leaf predicate holds of it; the
\* three leaves of LogicFilters are on three different fields.
Rows == SUBSET {"title", "views", "id"}

\* the filter tree: the keys of an object are conjoined, the children of
\* _and conjoined, the children of _or disjoined
RECURSIVE FilterTrue(_, _)
FilterTrue(filter, row) ==
    \A n \in 1..Len(filter.es) :
        LET e == filter.es[n]
        IN  CASE e.key = "_and" ->
                    \A m \in 1..Len(e.val.xs) : FilterTrue(e.val.xs[m], row)
              [] e.key = "_or" ->
                    \E m \in 1..Len(e.val.xs) : FilterTrue(e.val.xs[m], row)
              [] OTHER -> e.key \in row

\* the WHERE clauses in emission order: the combinator of the first is
\* dropped, AND binds tighter than OR
WhereTrue(wheres, row) ==
    LET starts == {1} \cup {n \in 2..Len(wheres) : wheres[n].bool = "or"}
        last(s) ==
            IF \E t \in starts : t > s
            THEN (CHOOSE t \in starts :
                    t > s /\ \A u \in starts : u > s => t <= u) - 1
            ELSE Len(wheres)
    IN  \/ wheres = <<>>
        \/ \E s \in starts : \A n \in s..last(s) : wheres[n].col[2] \in row

(***************************************************************************)
(* C1                                                                      *)
(***************************************************************************)
\* C1: for every filter tree of _and / _or over leaf predicates, the WHERE
\* clauses the predicate pass emitted, read in emission order with SQL
\* precedence, are true of exactly the rows of which the filter tree is true.
C1_WhereClausesMeanFilterTree ==
    (/\ inv[1].phase = "returned"
     /\ inv[1].rootFilter \in LogicFilters
     /\ NoEmptyObject(inv[1].rootFilter))
        => \A row \in Rows :
              WhereTrue(query[1].wheres, row)
                  = FilterTrue(inv[1].rootFilter, row)

(***************************************************************************)
(* C2                                                                      *)
(***************************************************************************)
\* C2: when the outer applyQuery has returned the builder, the nested
\* applyQuery of every subquery callback on it has run to completion.
C2_SubqueryCompiledBeforeReturn ==
    inv[1].phase = "returned"
        => \A n \in 1..Len(query[1].wheres) :
              query[1].wheres[n].val.k = "callback"
                  => \E j \in Invocations :
                        /\ inv[j].spawnedBy = n
                        /\ inv[j].phase = "returned"

(***************************************************************************)
(* C3                                                                      *)
(***************************************************************************)
\* the first key of the value of the leaf a clause was emitted for
SentinelOf(i, c) ==
    LET v == LeafAt(inv[i].rootFilter, c.pos).val
    IN  IF v.k = "obj" /\ v.es # <<>> THEN v.es[1].key ELSE ""

\* C3: a to-many leaf compiled as a subquery is NOT IN exactly when the
\* first key of its value is _none and IN otherwise; the filter handed to
\* the nested compile is the value under _some / _none, else the whole value.
C3_SentinelChoosesInOrNotIn ==
    /\ \A i \in Invocations : \A n \in 1..Len(query[i].wheres) :
          LET c == query[i].wheres[n]
              v == LeafAt(inv[i].rootFilter, c.pos).val
          IN  c.val.k = "callback" =>
                /\ c.fn = IF SentinelOf(i, c) = "_none" THEN "whereNotIn"
                          ELSE "whereIn"
                /\ c.val.filter =
                        IF SentinelOf(i, c) \in {"_some", "_none"}
                        THEN v.es[1].val ELSE v
    /\ \A j \in Invocations :
          inv[j].spawnedBy # 0 =>
              inv[j].rootFilter = query[1].wheres[inv[j].spawnedBy].val.filter

\* a _none leaf was compiled to NOT IN and its nested compile was started
C3_Witness ==
    \E j \in Invocations :
        /\ inv[j].spawnedBy # 0
        /\ query[1].wheres[inv[j].spawnedBy].fn = "whereNotIn"
        /\ inv[j].phase = "returned"

(***************************************************************************)
(* C4                                                                      *)
(***************************************************************************)
\* C4: no join and no WHERE clause comes from a leaf inside an _or array
\* that holds an empty object, neither pass has such a leaf before it, and
\* a filter that is only such an _or leaves the builder without a clause.
C4_OpenOrContributesNothing ==
    \A i \in Invocations :
        /\ \A n \in 1..Len(query[i].wheres) :
              ~InsideOpenOr(inv[i].rootFilter, query[i].wheres[n].pos)
        /\ \A n \in 1..Len(query[i].joins) :
              ~InsideOpenOr(inv[i].rootFilter, query[i].joins[n].pos)
        /\ \A n \in 1..Len(inv[i].joinQueue) :
              ~InsideOpenOr(inv[i].rootFilter, inv[i].joinQueue[n].pos)
        /\ \A n \in 1..Len(inv[i].whereQueue) :
              ~InsideOpenOr(inv[i].rootFilter, inv[i].whereQueue[n].pos)
        /\ inv[i].hop.active
              => ~InsideOpenOr(inv[i].rootFilter, inv[i].hop.pos)
        /\ (/\ Len(inv[i].rootFilter.es) = 1
            /\ inv[i].rootFilter.es[1].key = "_or"
            /\ HasEmptyObject(inv[i].rootFilter.es[1].val.xs))
              => query[i].wheres = <<>> /\ query[i].joins = <<>>

\* a filter that is one _or of a relational leaf and an empty object was
\* compiled and returned
C4_Witness ==
    /\ inv[1].phase = "returned"
    /\ Len(inv[1].rootFilter.es) = 1
    /\ inv[1].rootFilter.es[1].key = "_or"
    /\ inv[1].rootFilter.es[1].val.xs[1]
          = F1(PathLeaf(<<"author", "name">>, "_eq", Str(<<"x">>)))
    /\ HasEmptyObject(inv[1].rootFilter.es[1].val.xs)
    /\ query[1].wheres = <<>>
    /\ query[1].joins = <<>>

(***************************************************************************)
(* C5                                                                      *)
(***************************************************************************)
\* every leaf names a scalar field of the collection by a one-segment path
IsScalarFilter(collection, filter) ==
    \A pos \in LeafPositions(filter, <<>>) :
        LET e == LeafAt(filter, pos)
        IN  /\ getRelationInfo(collection, e.key).relationType = ""
            /\ getField(collection, e.key) # NoField
            /\ e.val.k = "obj" =>
                  /\ e.val.es # <<>>
                  /\ \A n \in 1..Len(e.val.es) :
                        e.val.es[n].key \in FilterOperators

\* the number of (field, operator) pairs of the leaf at a place
OperatorsAt(filter, pos) ==
    LET e == LeafAt(filter, pos)
    IN  IF e.val.k = "obj" THEN Len(e.val.es) ELSE 1

\* the fragments the leaf at a place is compiled to: those of its first
\* operator alone
FragmentsAt(filter, pos) ==
    LET e == LeafAt(filter, pos)
        op == IF e.val.k = "obj" THEN e.val.es[1].key ELSE "_eq"
        v == IF e.val.k = "obj" THEN e.val.es[1].val ELSE e.val
    IN  CASE op \in ValuelessOperators -> IF v = Bool(FALSE) THEN 2 ELSE 1
          [] v = Undef -> 0
          [] op \in {"_between", "_nbetween"} ->
                IF /\ v.k = "arr"
                   /\ Cardinality({n \in 1..Len(v.xs) : v.xs[n] # Undef}) = 2
                THEN 1 ELSE 0
          [] OTHER -> 1

RECURSIVE SumOver(_, _, _)
SumOver(Count(_, _), filter, S) ==
    IF S = {} THEN 0
    ELSE LET pos == CHOOSE q \in S : TRUE
         IN  Count(filter, pos) + SumOver(Count, filter, S \ {pos})

\* no value-less operator of the filter is given the value false
NoValuelessFalse(filter) ==
    \A pos \in LeafPositions(filter, <<>>) :
        LET e == LeafAt(filter, pos)
        IN  e.val.k = "obj" =>
                \A n \in 1..Len(e.val.es) :
                    ~(/\ e.val.es[n].key \in ValuelessOperators
                      /\ e.val.es[n].val = Bool(FALSE))

\* C5 as claimed: a filter on scalar fields of the root collection emits no
\* join and as many WHERE fragments as it has leaf operators.  Leaves inside
\* an _or array with an empty object (skipped whole, C4) are not counted and
\* value-less operators given false (C15) are left out.
C5_OneFragmentPerLeafOperator ==
    (/\ inv[1].phase = "returned"
     /\ IsScalarFilter(inv[1].collection, inv[1].rootFilter)
     /\ NoValuelessFalse(inv[1].rootFilter))
        => /\ query[1].joins = <<>>
           /\ Len(query[1].wheres)
                = SumOver(OperatorsAt, inv[1].rootFilter,
                          {pos \in LeafPositions(inv[1].rootFilter, <<>>) :
                              ~InsideOpenOr(inv[1].rootFilter, pos)})

\* C5 as amended: such a filter, compiled without error, emits no join, and
\* each leaf outside an _or array with an empty object contributes the
\* fragments of its first operator only: one when its value is present (for
\* _between / _nbetween: a sequence of two defined bounds), none when a
\* value-taking operator has no value or _between / _nbetween has a value
\* whose length is not two, and two when a value-less operator is given false.
C5_FragmentsOfFirstOperator ==
    (/\ inv[1].phase = "returned"
     /\ IsScalarFilter(inv[1].collection, inv[1].rootFilter))
        => /\ query[1].joins = <<>>
           /\ Len(query[1].wheres)
                = SumOver(FragmentsAt, inv[1].rootFilter,
                          {pos \in LeafPositions(inv[1].rootFilter, <<>>) :
                              ~InsideOpenOr(inv[1].rootFilter, pos)})

\* a scalar leaf whose operator has no value was compiled to no fragment,
\* and a leaf with two operators to one
C5_Witness ==
    /\ inv[1].phase = "returned"
    /\ query[1].joins = <<>>
    /\ \/ /\ inv[1].rootFilter = F1(Leaf("title", "_eq", Undef))
          /\ query[1].wheres = <<>>
       \/ /\ inv[1].rootFilter
                = F1(E("views", Obj(<<E("_gt", Num(1)), E("_lt", Num(3))>>)))
          /\ Len(query[1].wheres) = 1

(***************************************************************************)
(* C6                                                                      *)
(***************************************************************************)
\* the places of the leaves the two passes reach
ReachedLeaves(filter) ==
    {pos \in LeafPositions(filter, <<>>) : ~InsideOpenOr(filter, pos)}

\* the path of the leaf at a place
PathAt(filter, pos) ==
    getFilterPath(LeafAt(filter, pos).key, LeafAt(filter, pos).val)

\* the leaf at the place has a two-segment path whose first segment is a
\* many-to-one relation of the collection
IsM2OPair(collection, filter, pos) ==
    /\ Len(PathAt(filter, pos)) = 2
    /\ getRelationInfo(collection, PathAt(filter, pos)[1]).relationType = "m2o"

\* the joins of builder i made for the leaf at a place
JoinsFor(i, pos) == {n \in 1..Len(query[i].joins) : query[i].joins[n].pos = pos}

\* join n of builder i is LEFT JOIN related AS alias ON parent.field = alias.pk
\* for the many-to-one relation of the collection's field
IsM2OJoin(i, n, collection, field) ==
    LET j == query[i].joins[n]
        r == getRelationInfo(collection, field).relation
    IN  /\ j.type = "m2o"
        /\ j.table = r.related_collection
        /\ j.left = <<collection, field>>
        /\ j.right = <<j.alias, Primary(r.related_collection)>>
        /\ j.alias # collection

\* C6 as claimed: a leaf with a two-segment path whose first segment is m2o
\* emits exactly one LEFT JOIN, and its predicate is written against the
\* alias of that join and the second segment.
C6_M2OPairJoinsOnce ==
    \A i \in Invocations : \A pos \in ReachedLeaves(inv[i].rootFilter) :
        IsM2OPair(inv[i].collection, inv[i].rootFilter, pos) =>
            /\ inv[i].phase \in {"where", "returned"} =>
                  /\ Cardinality(JoinsFor(i, pos)) = 1
                  /\ \A n \in JoinsFor(i, pos) :
                        IsM2OJoin(i, n, inv[i].collection,
                                  PathAt(inv[i].rootFilter, pos)[1])
            /\ \A n \in 1..Len(query[i].wheres) :
                  query[i].wheres[n].pos = pos =>
                      /\ \E m \in JoinsFor(i, pos) :
                            query[i].wheres[n].col[1] = query[i].joins[m].alias
                      /\ query[i].wheres[n].col[2]
                            = PathAt(inv[i].rootFilter, pos)[2]

\* the second segment of the leaf's path is no relation of the related
\* collection
SecondIsScalar(collection, filter, pos) ==
    LET path == PathAt(filter, pos)
        related == getRelationInfo(collection, path[1]).relation.related_collection
    IN  getRelationInfo(related, path[2]).relationType = ""

\* C6 as amended: a leaf with a two-segment path whose first segment is m2o
\* and whose second segment is a non-relational field of the related
\* collection emits exactly one LEFT JOIN (related collection under a
\* generated alias, on parent.field = alias.primaryKey); its predicate is
\* written against the alias recorded for its path, which is the alias of
\* such a join emitted for that path, and the second segment, never against
\* the root collection's table name.
C6_M2OPairWithScalarFieldJoinsOnce ==
    \A i \in Invocations : \A pos \in ReachedLeaves(inv[i].rootFilter) :
        (/\ IsM2OPair(inv[i].collection, inv[i].rootFilter, pos)
         /\ SecondIsScalar(inv[i].collection, inv[i].rootFilter, pos)) =>
            /\ Cardinality(JoinsFor(i, pos)) <= 1
            /\ inv[i].phase \in {"where", "returned"} =>
                  Cardinality(JoinsFor(i, pos)) = 1
            /\ \A n \in JoinsFor(i, pos) :
                  IsM2OJoin(i, n, inv[i].collection,
                            PathAt(inv[i].rootFilter, pos)[1])
            /\ \A n \in 1..Len(query[i].wheres) :
                  query[i].wheres[n].pos = pos =>
                      /\ \E m \in 1..Len(query[i].joins) :
                            /\ query[i].joins[m].key
                                  = PathAt(inv[i].rootFilter, pos)
                            /\ IsM2OJoin(i, m, inv[i].collection,
                                         PathAt(inv[i].rootFilter, pos)[1])
                            /\ query[i].wheres[n].col[1]
                                  = query[i].joins[m].alias
                      /\ query[i].wheres[n].col[1] # inv[i].collection
                      /\ query[i].wheres[n].col[2]
                            = PathAt(inv[i].rootFilter, pos)[2]

\* the filter {country: {name: {_eq: "x"}}} on authors was compiled to one
\* join and one predicate
C6_Witness ==
    /\ inv[1].phase = "returned"
    /\ inv[1].collection = "authors"
    /\ inv[1].rootFilter = F1(PathLeaf(<<"country", "name">>, "_eq", Str(<<"x">>)))
    /\ Len(query[1].joins) = 1
    /\ Len(query[1].wheres) = 1

(***************************************************************************)
(* C7                                                                      *)
(***************************************************************************)
\* C7: within one compile no two joins are emitted for the same alias-map
\* key: a second addJoin with the same path emits no further join.
C7_EachPathJoinedOnce ==
    \A i \in Invocations : \A n, m \in 1..Len(query[i].joins) :
        n < m => query[i].joins[n].key # query[i].joins[m].key

(***************************************************************************)
(* C8                                                                      *)
(***************************************************************************)
\* C8: within one compile no two joins on the query target carry the same
\* alias.
C8_AliasesUnique ==
    \A i \in Invocations : \A n, m \in 1..Len(query[i].joins) :
        n < m => query[i].joins[n].alias # query[i].joins[m].alias

(***************************************************************************)
(* C9                                                                      *)
(***************************************************************************)
\* invocation i is about to resolve a many-to-any hop without a scope
AtUnscopedA2O(i) ==
    /\ inv[i].phase = "joins"
    /\ inv[i].hop.active
    /\ getRelationInfo(inv[i].hop.parentCollection,
                       PathRoot(inv[i].hop.pathParts[1])).relationType = "a2o"
    /\ inv[i].hop.pathParts[1] \notin ScopedSegments

\* C9: a many-to-any hop without a scope raises an invalid-query error,
\* emits no join and resolves no further segment; the invocation has then
\* thrown and does nothing more.
C9_UnscopedA2ORaises ==
    [][\A i \in Invocations :
          /\ (AtUnscopedA2O(i) /\ inv'[i] # inv[i]) =>
                /\ inv'[i].phase = "threw"
                /\ inv'[i].err = "InvalidQuery"
                /\ ~inv'[i].hop.active
                /\ query'[i].joins = query[i].joins
          /\ inv[i].phase = "threw" =>
                inv'[i] = inv[i] /\ query'[i] = query[i]]_vars

\* the path item.name was resolved after a many-to-one hop inside a
\* subquery and the nested compile has thrown
C9_Witness ==
    \E i \in Invocations :
        /\ inv[i].phase = "threw"
        /\ inv[i].err = "InvalidQuery"
        /\ inv[i].rootFilter
              = F1(PathLeaf(<<"article", "item", "name">>, "_eq", Str(<<"x">>)))
        /\ Len(query[i].joins) = 1

(***************************************************************************)
(* C10                                                                     *)
(***************************************************************************)
\* the collection the last segment of a path is a field of ("" when the
\* path does not resolve)
RECURSIVE TargetCollection(_, _)
TargetCollection(collection, path) ==
    IF Len(path) = 1 \/ collection = "" THEN collection
    ELSE LET info == getRelationInfo(collection, PathRoot(path[1]))
         IN  CASE info.relationType = "" -> ""
               [] info.relationType = "m2o" ->
                    TargetCollection(info.relation.related_collection, Tail(path))
               [] info.relationType = "a2o" ->
                    TargetCollection(PathScope(path[1]), Tail(path))
               [] OTHER ->
                    TargetCollection(info.relation.collection, Tail(path))

\* the leaf at the place starts at an m2o, a2o or scalar field and asks for
\* an operator that the declared type of its target field does not allow
AsksInvalidOperator(collection, filter, pos) ==
    LET e == LeafAt(filter, pos)
        path == getFilterPath(e.key, e.val)
        target == TargetCollection(collection, path)
        field == getField(target, Last(path))
    IN  /\ getRelationInfo(collection, PathRoot(path[1])).relationType
              \in {"m2o", "a2o", ""}
        /\ target # ""
        /\ field # NoField
        /\ getOperation(e.key, e.val).operator
              \notin getFilterOperatorsForType(field.type)

\* no WHERE clause on any builder was emitted for such a leaf
NoClauseOfInvalidOperator ==
    \A i \in Invocations : \A n \in 1..Len(query[i].wheres) :
        ~AsksInvalidOperator(inv[i].collection, inv[i].rootFilter,
                             query[i].wheres[n].pos)

\* C10: when the predicate pass handles a leaf (first segment m2o, a2o or
\* scalar) whose operator is not allowed for the declared type of the target
\* field, it raises an invalid-query error and adds no clause; no clause of
\* such a leaf is ever on a builder.
C10_InvalidOperatorRaises ==
    /\ [][\A i \in Invocations :
            (/\ inv[i].phase = "where"
             /\ inv[i].whereQueue # <<>>
             /\ AsksInvalidOperator(inv[i].collection, inv[i].rootFilter,
                                    Head(inv[i].whereQueue).pos)
             /\ inv'[i] # inv[i]) =>
                /\ inv'[i].phase = "threw"
                /\ inv'[i].err = "InvalidQuery"
                /\ query'[i].wheres = query[i].wheres]_vars
    /\ []NoClauseOfInvalidOperator

\* {author: {name: {_gt: 1}}} was compiled up to the predicate pass, which
\* has thrown after the join
C10_Witness ==
    /\ inv[1].phase = "threw"
    /\ inv[1].err = "InvalidQuery"
    /\ inv[1].rootFilter = F1(PathLeaf(<<"author", "name">>, "_gt", Num(1)))
    /\ Len(query[1].joins) = 1
    /\ query[1].wheres = <<>>

(***************************************************************************)
(* C11                                                                     *)
(***************************************************************************)
SequenceOperators == {"_in", "_nin", "_between", "_nbetween"}

\* the clauses of a builder as the builder holds them
Untagged(wheres) ==
    [n \in 1..Len(wheres) |->
        Cl(wheres[n].bool, wheres[n].fn, wheres[n].col, wheres[n].cmp,
           wheres[n].val)]

\* the literal sequence of the elements of a comma-joined string
ElementsOf(v) == Arr([n \in 1..Len(v.parts) |-> Str(<<v.parts[n]>>)])

\* what the predicate pass makes of the one leaf {field: {operator: v}}
CompiledLeaf(collection, field, operator, v) ==
    scalarLeaf(<<collection, field>>, getField(collection, field),
               [operator |-> operator, value |-> v], "and", "")

\* C11: a leaf of _in, _nin, _between or _nbetween whose value is a
\* comma-joined string compiles to the clauses of the same leaf with the
\* literal sequence of the same elements, on fields of every type; a
\* _between or _nbetween leaf with a number of bounds other than two adds no
\* clause and raises no error.
C11_StringAndSequenceCompileAlike ==
    \A f \in {"title", "views"} : \A op \in SequenceOperators :
      \A v \in ScalarValues :
        inv[1].rootFilter = F1(Leaf(f, op, v)) =>
            /\ (/\ v.k = "str"
                /\ Len(v.parts) > 1
                /\ inv[1].phase = "returned") =>
                  Untagged(query[1].wheres)
                      = CompiledLeaf(inv[1].collection, f, op,
                                     ElementsOf(v)).clauses
            /\ (/\ v.k = "arr"
                /\ op \in {"_between", "_nbetween"}
                /\ op \in getFilterOperatorsForType(
                              getField(inv[1].collection, f).type)
                /\ Len(dropUndefined(v.xs)) # 2) =>
                  /\ inv[1].phase # "threw"
                  /\ query[1].wheres = <<>>

(***************************************************************************)
(* applyAggregate(dbQuery, aggregate, collection), lines 681-727.  The     *)
(* aggregate is given as its Object.entries: a sequence of                 *)
(* [operation, fields], fields being undefined or a list of field names.   *)
(* A name `sum->amount` is the sequence of its parts.                      *)
(***************************************************************************)
AggregateOperations ==
    {"avg", "avgDistinct", "countAll", "count", "countDistinct", "sum",
     "sumDistinct", "min", "max"}

Projection(fn, column, as) == [fn |-> fn, column |-> column, as |-> as]

\* a slip at lines 699-703: count on "*" not told from count on a field
aggregateProjection_noStar(operation, field, collection) ==
    CASE operation = "countAll" ->
            <<Projection("count", <<"*">>, <<"countAll">>)>>
      [] operation \in AggregateOperations ->
            <<Projection(operation, <<collection, field>>,
                         <<operation, "->", field>>)>>
      [] OTHER -> <<>>

\* lines 686-724: the calls made for one field of one operation
aggregateProjection(operation, field, collection) ==
    CASE operation = "countAll" ->
            <<Projection("count", <<"*">>, <<"countAll">>)>>
      [] operation = "count" /\ field = "*" ->
            <<Projection("count", <<"*">>, <<"count">>)>>
      [] operation \in AggregateOperations ->
            <<Projection(operation, <<collection, field>>,
                         <<operation, "->", field>>)>>
      [] OTHER -> <<>>

\* lines 685-725: for (const field of fields)
RECURSIVE aggregateFields(_, _, _)
aggregateFields(operation, fields, collection) ==
    IF fields = <<>> THEN <<>>
    ELSE aggregateProjection(operation, Head(fields), collection)
            \o aggregateFields(operation, Tail(fields), collection)

\* lines 682-726: for (const [operation, fields] of Object.entries(aggregate))
RECURSIVE applyAggregate(_, _)
applyAggregate(aggregate, collection) ==
    IF aggregate = <<>> THEN <<>>
    ELSE (IF Head(aggregate).fields.k = "undef" THEN <<>>
          ELSE aggregateFields(Head(aggregate).operation,
                               Head(aggregate).fields.xs, collection))
            \o applyAggregate(Tail(aggregate), collection)

\* the aggregates the function is run on
AggregateFieldLists ==
    {Undef, Arr(<<>>), Arr(<<"*">>), Arr(<<"amount">>),
     Arr(<<"amount", "id">>), Arr(<<"*", "amount">>)}
AggregateEntries ==
    {[operation |-> op, fields |-> fs] :
        op \in AggregateOperations, fs \in AggregateFieldLists}
Aggregates ==
    {<<e>> : e \in AggregateEntries}
        \cup {<<e1, e2>> : e1 \in AggregateEntries,
                           e2 \in {e \in AggregateEntries :
                                      /\ e.operation \in {"count", "sum", "countAll"}
                                      /\ e.fields \in {Arr(<<"*">>), Arr(<<"amount">>)}}}

\* inv[i] is a call of applyAggregate and query[i] the builder it is given
InitAggregate ==
    \E a \in Aggregates :
        /\ inv = <<[call |-> "applyAggregate", phase |-> "called",
                    collection |-> "orders", aggregate |-> a]>>
        /\ query = <<[selects |-> <<>>]>>

\* applyAggregate is synchronous: the whole call is one step
ApplyAggregate(i) ==
    /\ inv[i].call = "applyAggregate"
    /\ inv[i].phase = "called"
    /\ query' = [query EXCEPT ![i].selects =
                    @ \o applyAggregate(inv[i].aggregate, inv[i].collection)]
    /\ inv' = [inv EXCEPT ![i].phase = "returned"]

NextAggregate == \E i \in 1..Len(inv) : ApplyAggregate(i)

SpecAggregate == InitAggregate /\ [][NextAggregate]_vars

(***************************************************************************)
(* C12                                                                     *)
(***************************************************************************)
\* the (operation, field) pairs of an aggregate, in the order of the input
RECURSIVE AggregatePairs(_)
AggregatePairs(aggregate) ==
    IF aggregate = <<>> THEN <<>>
    ELSE LET e == Head(aggregate)
         IN  (IF e.fields.k = "undef" THEN <<>>
              ELSE [n \in 1..Len(e.fields.xs) |-> <<e.operation, e.fields.xs[n]>>])
                \o AggregatePairs(Tail(aggregate))

\* the name of the projection of a pair, its separator given
ProjectionName(pair, separator) ==
    IF pair[1] = "countAll" THEN <<"countAll">>
    ELSE IF pair[1] = "count" /\ pair[2] = "*" THEN <<"count">>
    ELSE <<pair[1]>> \o separator \o <<pair[2]>>

\* the projections of the returned call are named after the pairs
NamedAfterPairs(separator) ==
    \A i \in 1..Len(inv) :
        inv[i].phase = "returned" =>
            LET pairs == AggregatePairs(inv[i].aggregate)
            IN  /\ Len(query[i].selects) = Len(pairs)
                /\ \A n \in 1..Len(pairs) :
                      query[i].selects[n].as
                          = ProjectionName(pairs[n], separator)

RECURSIVE splitDots(_, _)
splitDots(tokens, segment) ==
    IF tokens = <<>> THEN <<segment>>
    ELSE IF Head(tokens) = "." THEN <<segment>> \o splitDots(Tail(tokens), <<>>)
    ELSE splitDots(Tail(tokens), Append(segment, Head(tokens)))

\* s.startsWith('-')
startsWithDash(tokens) == tokens # <<>> /\ Head(tokens) = "-"

\* the string of a segment; a segment that still has its dash names no field
segmentName(segment) == IF Len(segment) = 1 THEN segment[1] ELSE "-"

\* a slip at lines 245, 274: the direction not read off the key
sortOrder_never(sortField) == "asc"

\* lines 242-247 and 273-277: order
sortOrder(sortField) == IF startsWithDash(sortField) THEN "desc" ELSE "asc"

\* lines 241-251 and 273-276: the column path of a key
sortColumn(sortField) ==
    LET column == splitDots(sortField, <<>>)
        first == IF Len(column) > 1
                 THEN IF startsWithDash(column[1]) THEN Tail(column[1])
                      ELSE column[1]
                 ELSE IF startsWithDash(sortField) THEN Tail(column[1])
                      ELSE column[1]
    IN  [n \in 1..Len(column) |->
            segmentName(IF n = 1 THEN first ELSE column[n])]

NoTask ==
    [pc |-> "done", order |-> "asc", column |-> <<>>, pathParts |-> <<>>,
     parentCollection |-> "", parentAlias |-> "", alias |-> "",
     relationType |-> "", ref |-> <<>>]

\* followRelation, lines 128-141: a call runs up to its first await with the
\* alias it has drawn, or returns at line 137 (and addJoin resolves)
enterHop(task, pathParts, parentCollection, parentAlias, alias) ==
    LET info == getRelationInfo(parentCollection, PathRoot(pathParts[1]))
    IN  IF info.relationType = ""
        THEN [task EXCEPT !.pc = "await253", !.pathParts = <<>>]
        ELSE [task EXCEPT !.pc = "await141", !.pathParts = pathParts,
                          !.parentCollection = parentCollection,
                          !.parentAlias = parentAlias, !.alias = alias,
                          !.relationType = info.relationType]

\* lines 240-283: a callback of map() up to its first await
sortStart(sortField, collection, alias) ==
    LET column == sortColumn(sortField)
        task == [NoTask EXCEPT !.order = sortOrder(sortField),
                               !.column = column]
    IN  IF Len(column) > 1
        THEN enterHop(task, column, collection, "", alias)
        ELSE [task EXCEPT !.pc = "await281",
                          !.ref = <<collection, column[1]>>]

\* lines 202-225: after the joins of a hop, the next call or the return
afterHop(task, subQuery, alias) ==
    LET segment == task.pathParts[1]
        relation == getRelationInfo(task.parentCollection,
                                    PathRoot(segment)).relation
    IN  IF descends(task.relationType, subQuery, task.parentAlias)
           /\ Len(task.pathParts) > 1
        THEN enterHop(task, Tail(task.pathParts),
                      hopParent(task.relationType, relation, segment),
                      task.alias, alias)
        ELSE [task EXCEPT !.pc = "await253", !.pathParts = <<>>]

\* the sort lists applySort is run on (articles)
SortKeys ==
    {<<"title">>, <<"-", "views">>, <<"author", ".", "name">>,
     <<"-", "author", ".", "name">>, <<"-", "author", ".", "age">>,
     <<"author", ".", "country", ".", "name">>,
     <<"item:authors", ".", "name">>, <<"item", ".", "name">>,
     <<"-", "comments", ".", "body">>}
SortLists ==
    {<<k>> : k \in SortKeys}
        \cup {<<k1, k2>> : k1 \in SortKeys, k2 \in SortKeys}

SortCall(c, rootSort, sq) ==
    [call |-> "applySort", phase |-> "called", collection |-> c,
     rootSort |-> rootSort, subQuery |-> sq, aliasMap |-> EmptyMap,
     tasks |-> <<>>, finished |-> <<>>, err |-> ""]

NewBuilder == [joins |-> <<>>, wheres |-> <<>>, orderBy |-> <<>>]

\* a slip at line 238: one alias map of the module, that of the first call
aliasMapOf_first(i) == 1

\* line 238: the alias map the callbacks of call i write and read is the
\* constant the call has made itself
aliasMapOf(i) == i

InitSort ==
    \E rootSort \in SortLists :
        /\ inv = <<SortCall("articles", rootSort, FALSE)>>
        /\ query = <<NewBuilder>>

\* lines 237-240: resumed after schema.getRelations(), applySort makes its
\* alias map and map() calls the callback of every key, in input order
ApplySort(i) ==
    /\ inv[i].call = "applySort"
    /\ inv[i].phase = "called"
    /\ \E aliases \in [1..Len(inv[i].rootSort) -> Aliases] :
          inv' = [inv EXCEPT
                    ![aliasMapOf(i)].aliasMap = EmptyMap,
                    ![i].phase = "mapping",
                    ![i].tasks =
                        [k \in 1..Len(inv[i].rootSort) |->
                            sortStart(inv[i].rootSort[k], inv[i].collection,
                                      aliases[k])]]
    /\ UNCHANGED query

\* the rejection of map() and of applySort when a callback throws
Rejected(call, err) ==
    IF call.phase = "mapping"
    THEN [call EXCEPT !.phase = "threw", !.err = err]
    ELSE call

\* followRelation resumed at line 141: lines 143-200 up to the next await
SortFollowRelation(i, k) ==
    /\ inv[i].call = "applySort"
    /\ inv[i].phase \in {"mapping", "threw"}
    /\ inv[i].tasks[k].pc = "await141"
    /\ LET t == inv[i].tasks[k]
           segment == t.pathParts[1]
           info == getRelationInfo(t.parentCollection, PathRoot(segment))
           key == AliasKey(t.parentAlias, t.pathParts)
           map == AliasSet(inv[aliasMapOf(i)].aliasMap, key, t.alias)
       IN  CASE t.relationType = "a2o" /\ scopeMissing(segment) ->
                  /\ inv' = [inv EXCEPT
                        ![aliasMapOf(i)].aliasMap = map,
                        ![i] = Rejected([@ EXCEPT !.tasks[k].pc = "threw"],
                                        "InvalidQuery")]
                  /\ UNCHANGED query
             [] t.relationType = "a2o" /\ ~scopeMissing(segment) ->
                  /\ inv' = [inv EXCEPT ![aliasMapOf(i)].aliasMap = map,
                                        ![i].tasks[k].pc = "await162"]
                  /\ UNCHANGED query
             [] t.relationType = "o2a" ->
                  /\ inv' = [inv EXCEPT ![aliasMapOf(i)].aliasMap = map,
                                        ![i].tasks[k].pc = "await177"]
                  /\ UNCHANGED query
             [] OTHER ->
                  \E alias \in Aliases :
                      /\ query' = [query EXCEPT ![i].joins =
                            @ \o TagJoins(
                                    hopJoins(t.relationType, info.relation,
                                             segment, t.parentCollection,
                                             t.parentAlias, t.alias,
                                             inv[i].subQuery),
                                    key, <<k>>)]
                      /\ inv' = [inv EXCEPT
                            ![aliasMapOf(i)].aliasMap = map,
                            ![i].tasks[k] = afterHop(t, inv[i].subQuery, alias)]

\* followRelation resumed at line 162 (a2o) or 177 (o2a): the join of the
\* hop and lines 202-225
SortJoinScoped(i, k) ==
    /\ inv[i].call = "applySort"
    /\ inv[i].phase \in {"mapping", "threw"}
    /\ inv[i].tasks[k].pc \in {"await162", "await177"}
    /\ LET t == inv[i].tasks[k]
           segment == t.pathParts[1]
           info == getRelationInfo(t.parentCollection, PathRoot(segment))
           key == AliasKey(t.parentAlias, t.pathParts)
       IN  \E alias \in Aliases :
              /\ query' = [query EXCEPT ![i].joins =
                    @ \o TagJoins(
                            hopJoins(t.relationType, info.relation, segment,
                                     t.parentCollection, t.parentAlias,
                                     t.alias, inv[i].subQuery),
                            key, <<k>>)]
              /\ inv' = [inv EXCEPT
                    ![i].tasks[k] = afterHop(t, inv[i].subQuery, alias)]

\* the callback resumed at line 253, addJoin having resolved: lines 264-269
SortColumnPath(i, k) ==
    /\ inv[i].call = "applySort"
    /\ inv[i].phase \in {"mapping", "threw"}
    /\ inv[i].tasks[k].pc = "await253"
    /\ LET r == getColumnPath(inv[i].tasks[k].column, inv[i].collection,
                              inv[aliasMapOf(i)].aliasMap)
       IN  inv' =
            IF r.err # ""
            THEN [inv EXCEPT
                    ![i] = Rejected([inv[i] EXCEPT !.tasks[k].pc = "threw"],
                                    r.err)]
            ELSE [inv EXCEPT ![i].tasks[k].pc = "await269",
                             ![i].tasks[k].ref = r.columnPath]
    /\ UNCHANGED query

\* the callback resumed at line 269 or 281, getColumn having resolved: it
\* returns its entry
SortReturnEntry(i, k) ==
    /\ inv[i].call = "applySort"
    /\ inv[i].phase \in {"mapping", "threw"}
    /\ inv[i].tasks[k].pc \in {"await269", "await281"}
    /\ inv' = [inv EXCEPT ![i].tasks[k].pc = "done",
                          ![i].finished = Append(@, k)]
    /\ UNCHANGED query

\* line 285: map() has resolved with the entries in the order of the keys
SortOrderBy(i) ==
    /\ inv[i].call = "applySort"
    /\ inv[i].phase = "mapping"
    /\ \A k \in 1..Len(inv[i].tasks) : inv[i].tasks[k].pc = "done"
    /\ query' = [query EXCEPT ![i].orderBy =
                    @ \o [k \in 1..Len(inv[i].tasks) |->
                            [order |-> inv[i].tasks[k].order,
                             column |-> inv[i].tasks[k].ref]]]
    /\ inv' = [inv EXCEPT ![i].phase = "returned"]

SortTasks(i) ==
    IF inv[i].call = "applySort" THEN 1..Len(inv[i].tasks) ELSE {}

NextSort ==
    \/ \E i \in 1..Len(inv) : ApplySort(i)
    \/ \E i \in 1..Len(inv) : \E k \in SortTasks(i) : SortFollowRelation(i, k)
    \/ \E i \in 1..Len(inv) : \E k \in SortTasks(i) : SortJoinScoped(i, k)
    \/ \E i \in 1..Len(inv) : \E k \in SortTasks(i) : SortColumnPath(i, k)
    \/ \E i \in 1..Len(inv) : \E k \in SortTasks(i) : SortReturnEntry(i, k)
    \/ \E i \in 1..Len(inv) : SortOrderBy(i)

SpecSort == InitSort /\ [][NextSort]_vars

(***************************************************************************)
(* C13                                                                     *)
(***************************************************************************)
\* C13: a returned applySort has put one ORDER BY entry per sort key on the
\* builder, in the order of the keys, each on the field its key ends with,
\* descending exactly when the key starts with "-" and ascending otherwise,
\* in whatever order the callbacks of the keys have finished.
C13_OrderByFollowsSortKeys ==
    \A i \in 1..Len(inv) :
        (inv[i].call = "applySort" /\ inv[i].phase = "returned") =>
            /\ Len(query[i].orderBy) = Len(inv[i].rootSort)
            /\ \A n \in 1..Len(inv[i].rootSort) :
                  /\ query[i].orderBy[n].order
                        = (IF Head(inv[i].rootSort[n]) = "-" THEN "desc"
                           ELSE "asc")
                  /\ Last(query[i].orderBy[n].column)
                        = Last(inv[i].rootSort[n])

\* ["author.name", "-views"] has been compiled, the callback of the second
\* key having finished before that of the first
C13_Witness ==
    /\ inv[1].call = "applySort"
    /\ inv[1].phase = "returned"
    /\ inv[1].rootSort = <<<<"author", ".", "name">>, <<"-", "views">>>>
    /\ inv[1].finished = <<2, 1>>
    /\ Len(query[1].joins) = 1
    /\ query[1].orderBy
          = <<[order |-> "asc", column |-> <<query[1].joins[1].alias, "name">>],
              [order |-> "desc", column |-> <<"articles", "views">>]>>

(***************************************************************************)
(* applySearch(schema, dbQuery, searchQuery, collection), lines 659-679.   *)
(* The fields of the collection are given as Object.entries of             *)
(* schema.getFields(collection): a sequence of [name, type].               *)
(***************************************************************************)
\* validate(searchQuery) of uuid-validate: the strings that are UUIDs
UuidStrings == {Str(<<"6f1c0a52-uuid">>)}
validate(searchQuery) == searchQuery \in UuidStrings

\* isNaN(number)
isNaN(v) == v = NaN

\* a slip at line 673: the number not tested
searchMember_untested(collection, name, type, searchQuery) ==
    CASE type \in {"text", "string"} ->
            <<Cl("or", "whereRaw", <<collection, name>>, "LOWER(??) LIKE ?",
                 Like(TRUE, toLowerCase(searchQuery), TRUE))>>
      [] type \in {"bigInteger", "integer", "decimal", "float"} ->
            <<Cl("or", "where", <<collection, name>>, "=",
                 Number(searchQuery))>>
      [] type = "uuid" /\ validate(searchQuery) ->
            <<Cl("or", "where", <<collection, name>>, "=", searchQuery)>>
      [] OTHER -> <<>>

\* lines 669-676: what the group gets for one field
searchMember(collection, name, type, searchQuery) ==
    CASE type \in {"text", "string"} ->
            <<Cl("or", "whereRaw", <<collection, name>>, "LOWER(??) LIKE ?",
                 Like(TRUE, toLowerCase(searchQuery), TRUE))>>
      [] type \in {"bigInteger", "integer", "decimal", "float"} ->
            IF ~isNaN(Number(searchQuery))
            THEN <<Cl("or", "where", <<collection, name>>, "=",
                      Number(searchQuery))>>
            ELSE <<>>
      [] type = "uuid" /\ validate(searchQuery) ->
            <<Cl("or", "where", <<collection, name>>, "=", searchQuery)>>
      [] OTHER -> <<>>

\* lines 668-677: fields.forEach
RECURSIVE searchMembers(_, _, _)
searchMembers(collection, fields, searchQuery) ==
    IF fields = <<>> THEN <<>>
    ELSE searchMember(collection, Head(fields).name, Head(fields).type,
                      searchQuery)
            \o searchMembers(collection, Tail(fields), searchQuery)

\* the collections and the terms applySearch is run on
SearchTypes ==
    {"string", "text", "integer", "bigInteger", "decimal", "float", "uuid",
     "boolean", "dateTime"}
SearchFieldLists ==
    {<<[name |-> "f1", type |-> t]>> : t \in SearchTypes}
        \cup {<<[name |-> "f1", type |-> t1], [name |-> "f2", type |-> t2]>> :
                t1 \in SearchTypes, t2 \in SearchTypes}
SearchTerms ==
    {Str(<<"1">>), Str(<<"x">>), Str(<<"X">>), Str(<<"1", "2">>),
     Str(<<" ">>)} \cup UuidStrings

InitSearch ==
    \E fields \in SearchFieldLists : \E term \in SearchTerms :
        /\ inv = <<[call |-> "applySearch", phase |-> "called",
                    collection |-> "orders", getFields |-> fields,
                    searchQuery |-> term]>>
        /\ query = <<[joins |-> <<>>,
                      wheres |-> <<Cl("and", "where", <<"orders", "status">>,
                                      "=", Str(<<"x">>))>>,
                      orderBy |-> <<>>]>>

\* lines 665-678: resumed after schema.getFields(collection), applySearch
\* adds the group
ApplySearch(i) ==
    /\ inv[i].call = "applySearch"
    /\ inv[i].phase = "called"
    /\ query' = [query EXCEPT ![i].wheres =
                    Append(@, [bool |-> "and", fn |-> "whereWrapped",
                               group |-> searchMembers(inv[i].collection,
                                                       inv[i].getFields,
                                                       inv[i].searchQuery)])]
    /\ inv' = [inv EXCEPT ![i].phase = "returned"]

NextSearch == \E i \in 1..Len(inv) : ApplySearch(i)

SpecSearch == InitSearch /\ [][NextSearch]_vars

(***************************************************************************)
(* C14                                                                     *)
(***************************************************************************)
\* the member a field of the given type is to have in the group: "like",
\* "number", "uuid" or "none"
MemberKind(type, term) ==
    CASE type \in {"text", "string"} -> "like"
      [] type \in NumericTypes /\ Number(term) # NaN -> "number"
      [] type = "uuid" /\ term \in UuidStrings -> "uuid"
      [] OTHER -> "none"

\* the fields of the list that are to have a member, in order
RECURSIVE FieldsWithMember(_, _)
FieldsWithMember(fields, term) ==
    IF fields = <<>> THEN <<>>
    ELSE (IF MemberKind(Head(fields).type, term) = "none" THEN <<>>
          ELSE <<Head(fields)>>)
            \o FieldsWithMember(Tail(fields), term)

\* C14: a returned applySearch has added exactly one group to the builder,
\* joined to the clauses before it by AND, whose members are joined by OR:
\* for each text or string field a case-insensitive substring predicate,
\* for each numeric field an equality with the parsed number when the term
\* parses as a number, for each uuid field an equality when the term is a
\* valid UUID, and nothing for any other field or a failed parse.
C14_SearchAddsOneOrGroup ==
    \A i \in 1..Len(inv) :
        (inv[i].call = "applySearch" /\ inv[i].phase = "returned") =>
            LET term == inv[i].searchQuery
                expected == FieldsWithMember(inv[i].getFields, term)
                added == query[i].wheres[2]
            IN  /\ Len(query[i].wheres) = 2
                /\ query[i].wheres[1].fn = "where"
                /\ added.bool = "and"
                /\ added.fn = "whereWrapped"
                /\ Len(added.group) = Len(expected)
                /\ \A n \in 1..Len(expected) :
                      LET m == added.group[n]
                          kind == MemberKind(expected[n].type, term)
                      IN  /\ m.bool = "or"
                          /\ m.col = <<inv[i].collection, expected[n].name>>
                          /\ kind = "like" =>
                                /\ m.cmp = "LOWER(??) LIKE ?"
                                /\ m.val = Like(TRUE, toLowerCase(term), TRUE)
                          /\ kind = "number" =>
                                m.cmp = "=" /\ m.val = Number(term)
                          /\ kind = "uuid" => m.cmp = "=" /\ m.val = term

\* the term "1" on a collection with a text field and an integer field has
\* given the group (LOWER(f1) LIKE '%1%') OR (f2 = 1)
C14_Witness ==
    /\ inv[1].call = "applySearch"
    /\ inv[1].phase = "returned"
    /\ inv[1].searchQuery = Str(<<"1">>)
    /\ inv[1].getFields = <<[name |-> "f1", type |-> "text"],
                            [name |-> "f2", type |-> "integer"]>>
    /\ query[1].wheres[2].group
          = <<Cl("or", "whereRaw", <<"orders", "f1">>, "LOWER(??) LIKE ?",
                 Like(TRUE, Str(<<"1">>), TRUE)),
              Cl("or", "where", <<"orders", "f2">>, "=", Num(1))>>

(***************************************************************************)
(* C15                                                                     *)
(***************************************************************************)
\* the negated counterpart of a value-less operator
Negated(operator) ==
    CASE operator = "_null" -> "_nnull"
      [] operator = "_nnull" -> "_null"
      [] operator = "_empty" -> "_nempty"
      [] OTHER -> "_empty"

\* C15: a returned compile of the one leaf {field: {operator: false}},
\* operator value-less, holds exactly the clauses of the leaf
\* {field: {counterpart: true}}, and no leaf has put both a predicate and
\* its negation on a builder.
C15_FalseMeansCounterpartOnly ==
    /\ \A f \in {"title", "views"} : \A op \in ValuelessOperators :
          (/\ inv[1].rootFilter = F1(Leaf(f, op, Bool(FALSE)))
           /\ inv[1].phase = "returned") =>
              Untagged(query[1].wheres)
                  = CompiledLeaf(inv[1].collection, f, Negated(op),
                                 Bool(TRUE)).clauses
    /\ \A i \in Invocations : \A n, m \in 1..Len(query[i].wheres) :
          (/\ query[i].wheres[n].pos = query[i].wheres[m].pos
           /\ query[i].wheres[n].col = query[i].wheres[m].col) =>
              /\ ~(/\ query[i].wheres[n].fn = "whereNull"
                   /\ query[i].wheres[m].fn = "whereNotNull")
              /\ ~(/\ query[i].wheres[n].fn = "whereWrapped"
                   /\ query[i].wheres[m].fn = "whereWrapped"
                   /\ query[i].wheres[n].cmp = "="
                   /\ query[i].wheres[m].cmp = "!=")

(***************************************************************************)
(* Two requests compiled at the same time: two calls of applyFilter or     *)
(* applySort, each with the builder of its request, resumed at their       *)
(* awaits in any order.                                                    *)
(***************************************************************************)
FilterRequests ==
    {F1(LeafA),
     F1(PathLeaf(<<"author", "name">>, "_eq", Str(<<"x">>))),
     F1(PathLeaf(<<"item", "name">>, "_eq", Str(<<"x">>))),
     F1(E("comments", SomeBody))}
SortRequests ==
    {<<<<"author", ".", "name">>>>,
     <<<<"-", "views">>, <<"author", ".", "country", ".", "name">>>>,
     <<<<"item:authors", ".", "name">>>>,
     <<<<"item", ".", "name">>>>}

\* the call of a request and the builder it is given
RequestCalls ==
    {[call |-> NewInvocation("articles", f, FALSE, 0),
      builder |-> [base |-> NoBase, joins |-> <<>>, wheres |-> <<>>,
                   sql |-> NotCompiled]] : f \in FilterRequests}
        \cup {[call |-> SortCall("articles", rootSort, FALSE),
               builder |-> NewBuilder] : rootSort \in SortRequests}

InitTwo ==
    \E a \in RequestCalls : \E b \in RequestCalls :
        /\ inv = <<a.call, b.call>>
        /\ query = <<a.builder, b.builder>>

FilterCalls == {i \in 1..Len(inv) : "rootFilter" \in DOMAIN inv[i]}
SortCalls == {i \in 1..Len(inv) : "rootSort" \in DOMAIN inv[i]}

NextTwo ==
    \/ \E i \in FilterCalls : ApplyFilter(i)
    \/ \E i \in FilterCalls : AddJoins(i)
    \/ \E i \in FilterCalls : FollowRelation(i)
    \/ \E i \in FilterCalls : AddWhereClauses(i)
    \/ 1 \in FilterCalls /\ CompileSQL
    \/ \E i \in SortCalls : ApplySort(i)
    \/ \E i \in SortCalls : \E k \in SortTasks(i) : SortFollowRelation(i, k)
    \/ \E i \in SortCalls : \E k \in SortTasks(i) : SortJoinScoped(i, k)
    \/ \E i \in SortCalls : \E k \in SortTasks(i) : SortColumnPath(i, k)
    \/ \E i \in SortCalls : \E k \in SortTasks(i) : SortReturnEntry(i, k)
    \/ \E i \in SortCalls : SortOrderBy(i)

SpecTwo == InitTwo /\ [][NextTwo]_vars

(***************************************************************************)
(* C16                                                                     *)
(***************************************************************************)
\* the joins a path gives when it is resolved alone, without their aliases
RECURSIVE JoinShapes(_, _, _, _)
JoinShapes(parentCollection, pathParts, parentAlias, subQuery) ==
    LET segment == pathParts[1]
        info == getRelationInfo(parentCollection, PathRoot(segment))
        js == hopJoins(info.relationType, info.relation, segment,
                       parentCollection, parentAlias, "alias", subQuery)
    IN  IF info.relationType = "" THEN <<>>
        ELSE IF info.relationType = "a2o" /\ PathScope(segment) = "" THEN <<>>
        ELSE [n \in 1..Len(js) |-> [type |-> js[n].type, table |-> js[n].table]]
             \o (IF descends(info.relationType, subQuery, parentAlias)
                    /\ Len(pathParts) > 1
                 THEN JoinShapes(hopParent(info.relationType, info.relation,
                                           segment),
                                 Tail(pathParts), "alias", subQuery)
                 ELSE <<>>)

\* the joins on a builder made for one place, without their aliases
RECURSIVE ShapesAt(_, _)
ShapesAt(joins, pos) ==
    IF joins = <<>> THEN <<>>
    ELSE (IF Head(joins).pos = pos
          THEN <<[type |-> Head(joins).type, table |-> Head(joins).table]>>
          ELSE <<>>)
            \o ShapesAt(Tail(joins), pos)

\* the clauses the predicate pass gives for the leaves of a queue
RECURSIVE ClausesOf(_, _, _, _)
ClausesOf(queue, collection, subQuery, aliasMap) ==
    IF queue = <<>> THEN <<>>
    ELSE whereLeaf(Head(queue), collection, subQuery, aliasMap).clauses
            \o ClausesOf(Tail(queue), collection, subQuery, aliasMap)

\* a returned applyFilter has emitted what its filter gives alone
FilterAsAlone(i) ==
    /\ \A n \in 1..Len(query[i].joins) :
          query[i].joins[n].pos \in ReachedLeaves(inv[i].rootFilter)
    /\ \A pos \in ReachedLeaves(inv[i].rootFilter) :
          ShapesAt(query[i].joins, pos)
              = (IF Len(PathAt(inv[i].rootFilter, pos)) > 1
                 THEN JoinShapes(inv[i].collection,
                                 PathAt(inv[i].rootFilter, pos), "",
                                 inv[i].subQuery)
                 ELSE <<>>)
    /\ Untagged(query[i].wheres)
          = ClausesOf(addWhereItems(inv[i].rootFilter), inv[i].collection,
                      inv[i].subQuery, inv[i].aliasMap)

\* a returned applySort has emitted what its sort list gives alone
SortAsAlone(i) ==
    /\ \A n \in 1..Len(query[i].joins) :
          query[i].joins[n].pos \in {<<k>> : k \in 1..Len(inv[i].rootSort)}
    /\ \A k \in 1..Len(inv[i].rootSort) :
          /\ ShapesAt(query[i].joins, <<k>>)
                = (IF Len(sortColumn(inv[i].rootSort[k])) > 1
                   THEN JoinShapes(inv[i].collection,
                                   sortColumn(inv[i].rootSort[k]), "",
                                   inv[i].subQuery)
                   ELSE <<>>)
          /\ query[i].orderBy[k].order
                = (IF Head(inv[i].rootSort[k]) = "-" THEN "desc" ELSE "asc")
          /\ Last(query[i].orderBy[k].column) = Last(inv[i].rootSort[k])
          /\ \/ query[i].orderBy[k].column[1] = inv[i].collection
             \/ \E n \in 1..Len(query[i].joins) :
                   query[i].orderBy[k].column[1] = query[i].joins[n].alias
    /\ Len(query[i].orderBy) = Len(inv[i].rootSort)
    /\ query[i].wheres = <<>>

\* the call or the builder of place j is changed by the step
Touched(j) == inv'[j] # inv[j] \/ query'[j] # query[j]

\* C16: no step of a compile writes the alias map or the builder of two
\* calls, so a call resumed between the awaits of another changes nothing
\* of the other; and what each of the two requests has emitted when it
\* returns is what its filter or sort list gives alone, up to the aliases.
C16_CallsDoNotAffectEachOther ==
    /\ [][\A j, l \in 1..Len(inv) : j # l => ~(Touched(j) /\ Touched(l))]_vars
    /\ [](\A i \in {1, 2} :
            inv[i].phase = "returned" =>
                IF i \in FilterCalls THEN FilterAsAlone(i) ELSE SortAsAlone(i))

\* a filter and a sort list on the same path were compiled at the same time,
\* both have drawn the same alias and both have returned
C16_Witness ==
    /\ inv[1].phase = "returned"
    /\ inv[2].phase = "returned"
    /\ 1 \in FilterCalls
    /\ 2 \in SortCalls
    /\ inv[1].rootFilter = F1(PathLeaf(<<"author", "name">>, "_eq", Str(<<"x">>)))
    /\ inv[2].rootSort = <<<<"author", ".", "name">>>>
    /\ Len(query[1].joins) = 1
    /\ Len(query[2].joins) = 1
    /\ query[1].joins[1].alias = query[2].joins[1].alias
    /\ Len(query[1].wheres) = 1
    /\ Len(query[2].orderBy) = 1

(***************************************************************************)
(* The compile of an existential subquery and the compile that holds its   *)
(* IN / NOT IN clause.                                                     *)
(***************************************************************************)
\* the compiles started by a subquery callback
Nested == {j \in Invocations : inv[j].spawnedBy # 0}

\* the aliases an alias map holds and the aliases a builder joins
MapAliases(aliasMap) == {aliasMap[q] : q \in DOMAIN aliasMap}
JoinAliases(joins) == {joins[n].alias : n \in 1..Len(joins)}

\* the clauses a builder holds for the leaf at a place of the filter
ClausesAt(wheres, pos) == {n \in 1..Len(wheres) : wheres[n].pos = pos}

\* C17: compiling an existential subquery leaves the parent compile
\* untouched.  No step of a nested compile changes the parent's invocation
\* (its alias map included) or the parent's builder; the nested compile
\* starts from an empty alias map, so every alias in its map is an alias of
\* a join of its own builder; and the parent's builder holds for the
\* to-many leaf exactly one clause, a whereIn or whereNotIn whose callback
\* carries the filter the nested compile runs on.
C17_SubqueryLeavesParentUntouched ==
    /\ [][\A j \in Nested :
            (inv'[j] # inv[j] \/ query'[j] # query[j])
                => inv'[1] = inv[1] /\ query'[1] = query[1]]_vars
    /\ [](\A j \in Nested :
            /\ inv[j].phase = "called" => inv[j].aliasMap = EmptyMap
            /\ inv[j].phase # "threw"
                => MapAliases(inv[j].aliasMap) \subseteq
                     JoinAliases(query[j].joins)
            /\ LET clause == query[1].wheres[inv[j].spawnedBy]
               IN  /\ clause.fn \in {"whereIn", "whereNotIn"}
                   /\ clause.val.k = "callback"
                   /\ clause.val.filter = inv[j].rootFilter
                   /\ clause.val.collection = inv[j].collection
                   /\ ClausesAt(query[1].wheres, clause.pos)
                        = {inv[j].spawnedBy})

\* a nested compile has returned with a join and a clause in its own
\* builder while the parent holds no join, no alias and the one IN clause
C17_Witness ==
    /\ Len(inv) = 2
    /\ inv[2].spawnedBy = 1
    /\ inv[2].phase = "returned"
    /\ query[2].joins # <<>>
    /\ query[2].wheres # <<>>
    /\ inv[2].aliasMap # EmptyMap
    /\ inv[1].aliasMap = EmptyMap
    /\ query[1].joins = <<>>
    /\ Len(query[1].wheres) = 1
    /\ query[1].wheres[1].fn = "whereIn"

(***************************************************************************)
(* ItemsService.createOne and createMany.  Here inv[1] is the call of      *)
(* createMany and query[1] the database and the cache it works on: the     *)
(* rows as the open transaction sees them, the rows saved at the start of  *)
(* each open transaction or savepoint, the number of cache.clear() calls   *)
(* and the action events emitted.                                          *)
(***************************************************************************)
MaxBatch == 2
PayloadKeys == {0, 1, 2}

\* a payload: its primary key (0 when it has none) and whether the filter
\* hooks and validatePayload accept it
Payload(key, valid) == [key |-> key, valid |-> valid]
ItemRow(key) == [collection |-> "items", key |-> key]
ActivityRow(item) == [collection |-> "directus_activity", key |-> item]

RECURSIVE ItemKeys(_)
ItemKeys(rows) ==
    IF rows = <<>> THEN <<>>
    ELSE (IF Head(rows).collection = "items" THEN <<Head(rows).key>>
          ELSE <<>>) \o ItemKeys(Tail(rows))

RECURSIVE MaxKey(_)
MaxKey(keys) ==
    IF keys = <<>> THEN 0
    ELSE LET m == MaxKey(Tail(keys))
         IN  IF Head(keys) > m THEN Head(keys) ELSE m

Front(seq) == SubSeq(seq, 1, Len(seq) - 1)

\* knex.transaction, lines 839 and 1019: the rows are saved when the
\* handler starts, kept when it resolves and restored when it rejects; on
\* a transaction the call opens a savepoint
begin(db) == [db EXCEPT !.saved = Append(@, db.rows)]
commit(db) == [db EXCEPT !.saved = Front(@)]
rollback_keepRows(db) == [db EXCEPT !.saved = Front(@)]
rollback(db) == [db EXCEPT !.rows = Last(db.saved), !.saved = Front(@)]

\* lines 1008 and 1036: this.cache && env['CACHE_AUTO_PURGE'] &&
\* opts?.autoPurgeCache !== false
autoPurges(cache, CACHE_AUTO_PURGE, autoPurgeCache) ==
    cache /\ CACHE_AUTO_PURGE /\ autoPurgeCache # "false"

\* lines 931-966: the activity (and revision) services are given the
\* transaction as their database and save the activity of the new item
saveActivity(db, accountability, primaryKey) ==
    IF accountability
    THEN [db EXCEPT !.rows = Append(@, ActivityRow(primaryKey))]
    ELSE db

Payloads == {Payload(key, valid) : key \in PayloadKeys, valid \in BOOLEAN}
RECURSIVE Batches(_)
Batches(n) ==
    IF n = 0 THEN {<<>>}
    ELSE Batches(n - 1)
            \cup {Append(b, p) : b \in {c \in Batches(n - 1) :
                                            Len(c) = n - 1},
                                 p \in Payloads}

InitCreateMany ==
    \E data \in Batches(MaxBatch), rows \in {<<>>, <<ItemRow(2)>>},
       cache \in BOOLEAN, CACHE_AUTO_PURGE \in BOOLEAN,
       autoPurgeCache \in {"undefined", "false"}, accountability \in BOOLEAN :
        /\ inv = <<[call |-> "createMany", phase |-> "called", data |-> data,
                    cache |-> cache, CACHE_AUTO_PURGE |-> CACHE_AUTO_PURGE,
                    autoPurgeCache |-> autoPurgeCache,
                    accountability |-> accountability, k |-> 1,
                    primaryKey |-> 0, primaryKeys |-> <<>>, err |-> "",
                    result |-> <<>>, before |-> rows]>>
        /\ query = <<[rows |-> rows, saved |-> <<>>, cacheClears |-> 0,
                      emitted |-> <<>>]>>

\* line 1019: the transaction of createMany starts
CreateMany(i) ==
    /\ inv[i].phase = "called"
    /\ inv' = [inv EXCEPT ![i].phase = "loop", ![i].primaryKeys = <<>>,
                          ![i].k = 1]
    /\ query' = [query EXCEPT ![i] = begin(@)]

\* lines 1028-1029 and 829-839: the loop calls createOne for the next
\* payload, which starts its own transaction on trx
CreateOne(i) ==
    /\ inv[i].phase = "loop"
    /\ inv[i].k <= Len(inv[i].data)
    /\ inv' = [inv EXCEPT ![i].phase = "validate", ![i].primaryKey = 0]
    /\ query' = [query EXCEPT ![i] = begin(@)]

\* lines 855-875: the filter hooks and validatePayload accept the payload
\* or throw
ValidatePayload(i) ==
    /\ inv[i].phase = "validate"
    /\ inv' = IF inv[i].data[inv[i].k].valid
              THEN [inv EXCEPT ![i].phase = "insert"]
              ELSE [inv EXCEPT ![i].phase = "failed",
                               ![i].err = "Forbidden"]
    /\ UNCHANGED query

\* lines 891-917: the insert; a key the table already holds makes the
\* database throw, a payload without key gets the next key of the table
Insert(i) ==
    /\ inv[i].phase = "insert"
    /\ LET key == inv[i].data[inv[i].k].key
           keys == ItemKeys(query[i].rows)
           returnedKey == IF key # 0 THEN key ELSE MaxKey(keys) + 1
       IN  IF key # 0 /\ \E n \in 1..Len(keys) : keys[n] = key
           THEN /\ inv' = [inv EXCEPT ![i].phase = "failed",
                                      ![i].err = "RecordNotUnique"]
                /\ UNCHANGED query
           ELSE /\ inv' = [inv EXCEPT ![i].phase = "activity",
                                      ![i].primaryKey = returnedKey]
                /\ query' = [query EXCEPT
                                ![i].rows = Append(@, ItemRow(returnedKey))]

\* lines 929-976: activity tracking, then the handler returns the key
SaveActivity(i) ==
    /\ inv[i].phase = "activity"
    /\ inv' = [inv EXCEPT ![i].phase = "resolve"]
    /\ query' = [query EXCEPT ![i] = saveActivity(@, inv[i].accountability,
                                                  inv[i].primaryKey)]

\* lines 839, 979-1012 and 1029-1030: the transaction of createOne resolves,
\* the action event is emitted, the cache is left alone because createMany
\* passed autoPurgeCache: false, and the key is pushed
CreateOneReturn(i) ==
    /\ inv[i].phase = "resolve"
    /\ inv' = [inv EXCEPT ![i].phase = "loop", ![i].k = @ + 1,
                          ![i].primaryKeys = Append(@, inv[i].primaryKey)]
    /\ query' = [query EXCEPT ![i] =
            [commit(@) EXCEPT
                !.emitted = Append(@, inv[i].primaryKey),
                !.cacheClears =
                    IF autoPurges(inv[i].cache, inv[i].CACHE_AUTO_PURGE,
                                  "false")
                    THEN @ + 1 ELSE @]]

\* line 839: the handler of createOne threw, its transaction rolls back
\* and createOne rejects, which throws out of the loop at line 1029
CreateOneReject(i) ==
    /\ inv[i].phase = "failed"
    /\ inv' = [inv EXCEPT ![i].phase = "thrown"]
    /\ query' = [query EXCEPT ![i] = rollback(@)]

\* line 1019: the handler of createMany threw, the transaction rolls back
\* and createMany rejects
TransactionReject(i) ==
    /\ inv[i].phase = "thrown"
    /\ inv' = [inv EXCEPT ![i].phase = "rejected"]
    /\ query' = [query EXCEPT ![i] = rollback(@)]

\* lines 1028-1034: the loop is over, the handler returns the keys and the
\* transaction commits
TransactionCommit(i) ==
    /\ inv[i].phase = "loop"
    /\ inv[i].k > Len(inv[i].data)
    /\ inv' = [inv EXCEPT ![i].phase = "committed"]
    /\ query' = [query EXCEPT ![i] = commit(@)]

\* lines 1036-1040
PurgeCache(i) ==
    /\ inv[i].phase = "committed"
    /\ inv' = [inv EXCEPT ![i].phase = "returned",
                          ![i].result = inv[i].primaryKeys]
    /\ query' = [query EXCEPT ![i].cacheClears =
            IF autoPurges(inv[i].cache, inv[i].CACHE_AUTO_PURGE,
                          inv[i].autoPurgeCache)
            THEN @ + 1 ELSE @]

NextCreateMany ==
    \/ CreateMany(1)
    \/ CreateOne(1)
    \/ ValidatePayload(1)
    \/ Insert(1)
    \/ SaveActivity(1)
    \/ CreateOneReturn(1)
    \/ CreateOneReject(1)
    \/ TransactionReject(1)
    \/ TransactionCommit(1)
    \/ PurgeCache(1)

\* every promise of the call settles: the event loop runs each continuation
SpecCreateMany ==
    InitCreateMany /\ [][NextCreateMany]_vars /\ WF_vars(NextCreateMany)

\* the keys of the item rows the call has added so far
AddedKeys ==
    SubSeq(ItemKeys(query[1].rows), Len(ItemKeys(inv[1].before)) + 1,
           Len(ItemKeys(query[1].rows)))

\* C18: createMany creates the records one after another in input order
\* inside one enclosing transaction and returns their keys in input order;
\* when a record fails createMany rejects, the table is as before the call
\* and the cache has not been cleared.  While the transaction is open its
\* start is the table before the call and the keys added are those of the
\* payloads handled so far, in order; when the call returns, the result is
\* the keys added, one per payload, each payload's own key where it has
\* one; a failure leads to rejection, and a rejected call leaves the rows
\* it found and has cleared no cache.
C18_CreateManyIsSequentialAndAtomic ==
    /\ [](inv[1].phase \notin {"called", "committed", "returned", "rejected"}
            => /\ query[1].saved # <<>>
               /\ query[1].saved[1] = inv[1].before
               /\ Len(AddedKeys) \in {inv[1].k - 1, inv[1].k}
               /\ SubSeq(AddedKeys, 1, Len(inv[1].primaryKeys))
                    = inv[1].primaryKeys
               /\ \A n \in 1..Len(AddedKeys) :
                    inv[1].data[n].key # 0
                        => AddedKeys[n] = inv[1].data[n].key)
    /\ [](inv[1].phase = "returned"
            => /\ inv[1].err = ""
               /\ query[1].saved = <<>>
               /\ inv[1].result = AddedKeys
               /\ Len(inv[1].result) = Len(inv[1].data)
               /\ \A n \in 1..Len(inv[1].data) :
                    inv[1].data[n].key # 0
                        => inv[1].result[n] = inv[1].data[n].key)
    /\ [](inv[1].phase = "rejected"
            => /\ inv[1].err # ""
               /\ query[1].saved = <<>>
               /\ query[1].rows = inv[1].before
               /\ query[1].cacheClears = 0)
    /\ [](inv[1].err # "" => inv[1].phase \notin {"committed", "returned"})
    /\ ((inv[1].err # "") ~> (inv[1].phase = "rejected"))

\* the second record of a batch failed after the first was inserted, the
\* call is rejected, the table is as before and the cache was not cleared,
\* although the call would have cleared it on success
C18_Witness ==
    /\ "call" \in DOMAIN inv[1]
    /\ inv[1].call = "createMany"
    /\ inv[1].phase = "rejected"
    /\ inv[1].primaryKeys # <<>>
    /\ autoPurges(inv[1].cache, inv[1].CACHE_AUTO_PURGE,
                  inv[1].autoPurgeCache)
    /\ query[1].rows = inv[1].before
    /\ query[1].cacheClears = 0

(***************************************************************************)
(* The hops of followRelation, seen from the filter compile.               *)
(***************************************************************************)
\* the relation the hop an invocation is about to take goes through
HopInfo(i) ==
    getRelationInfo(inv[i].hop.parentCollection,
                    PathRoot(inv[i].hop.pathParts[1]))

\* invocation i is about to take a hop through a relation of the kind
AtHop(i, relationType) ==
    /\ inv[i].phase = "joins"
    /\ inv[i].hop.active
    /\ HopInfo(i).relationType = relationType

\* C19: a one-to-many hop is joined exactly when the compile runs inside a
\* subquery or the hop is nested under an earlier relation.  A step that
\* takes an o2m hop adds one left join of the many side, on the parent's
\* primary key and the relation's field, when subQuery is true or a parent
\* alias is set, and leaves the joins of the builder as they are otherwise.
C19_O2MJoinedInSubqueryOrNested ==
    [][\A i \in Invocations :
        (AtHop(i, "o2m") /\ inv'[i] # inv[i])
            => LET h == inv[i].hop
                   relation == HopInfo(i).relation
                   before == query[i].joins
                   after == query'[i].joins
               IN  IF inv[i].subQuery \/ h.parentAlias # ""
                   THEN /\ Len(after) = Len(before) + 1
                        /\ SubSeq(after, 1, Len(before)) = before
                        /\ after[Len(after)].table = relation.collection
                        /\ after[Len(after)].left =
                            <<IF h.parentAlias # "" THEN h.parentAlias
                              ELSE h.parentCollection,
                              Primary(relation.related_collection)>>
                        /\ after[Len(after)].right =
                            <<after[Len(after)].alias, relation.field>>
                   ELSE after = before]_vars

\* a compile outside a subquery has taken the o2m hop comments at the root
\* of one path, without a join, and the o2m hop articles under author, with
\* a join
C19_Witness ==
    /\ "rootFilter" \in DOMAIN inv[1]
    /\ inv[1].subQuery = FALSE
    /\ inv[1].collection = "articles"
    /\ inv[1].phase = "where"
    /\ <<"comments", "body">> \in DOMAIN inv[1].aliasMap
    /\ \A n \in 1..Len(query[1].joins) : query[1].joins[n].table # "comments"
    /\ \E n \in 1..Len(query[1].joins) :
        /\ query[1].joins[n].table = "articles"
        /\ query[1].joins[n].left[2] = Primary("authors")

\* C20: after a hop the path resolver continues with the remaining
\* segments always for m2o, and for a2o and o2m exactly when it is inside a
\* subquery or already nested; in every other case it stops.  A step that
\* takes a hop through a relation, with segments left and without throwing,
\* goes on to the rest of the path exactly in those cases.
C20_DescendsForM2OAndNestedOrSubquery ==
    [][\A i \in Invocations :
        (/\ inv[i].phase = "joins"
         /\ inv[i].hop.active
         /\ HopInfo(i).relationType # ""
         /\ Len(inv[i].hop.pathParts) > 1
         /\ inv'[i] # inv[i]
         /\ inv'[i].phase # "threw")
            => LET h == inv[i].hop
                   relationType == HopInfo(i).relationType
                   continues ==
                        /\ inv'[i].hop.active
                        /\ inv'[i].hop.pathParts = Tail(h.pathParts)
               IN  continues <=>
                        \/ relationType = "m2o"
                        \/ /\ relationType \in {"a2o", "o2m"}
                           /\ (inv[i].subQuery \/ h.parentAlias # "")]_vars

(***************************************************************************)
(* applyQuery(knex, collection, dbQuery, query, schema, subQuery), lines   *)
(* 29-72.  Here inv[1] is the call of applyQuery: it carries the query     *)
(* (q), the part applyQuery comes to next, the parts it has applied (log)  *)
(* and, while applySort, applySearch or applyFilter runs, the record of    *)
(* that call.  query[1] is the dbQuery all of them are given.              *)
(***************************************************************************)
\* the truth of a value in an if
truthy(v) ==
    CASE v.k = "undef" -> FALSE
      [] v.k = "num" -> v.n # 0
      [] v.k = "bool" -> v.b
      [] OTHER -> TRUE

\* a slip in lines 36-69: the filter applied before the other parts
partAfter_filterFirst(part) ==
    CASE part = "start" -> "filter"
      [] part = "filter" -> "sort"
      [] part = "sort" -> "limit"
      [] part = "limit" -> "offset"
      [] part = "offset" -> "page"
      [] part = "page" -> "search"
      [] part = "search" -> "group"
      [] part = "group" -> "aggregate"
      [] OTHER -> "return"

\* lines 36-71: the statement that follows the statement of a part
partAfter(part) ==
    CASE part = "start" -> "sort"
      [] part = "sort" -> "limit"
      [] part = "limit" -> "offset"
      [] part = "offset" -> "page"
      [] part = "page" -> "search"
      [] part = "search" -> "group"
      [] part = "group" -> "aggregate"
      [] part = "aggregate" -> "filter"
      [] OTHER -> "return"

\* line 40: typeof query.limit === 'number' && query.limit !== -1
appliesLimit(q) == q.limit.k = "num" /\ q.limit.n # -1

\* line 48: query.page && query.limit && query.limit !== -1
appliesPage(q) == truthy(q.page) /\ truthy(q.limit) /\ q.limit.n # -1

\* lines 56-58: the columns of the GROUP BY, getColumn giving the column
\* of the collection
groupColumns(collection, group) ==
    [n \in 1..Len(group) |-> <<collection, group[n]>>]

\* schema.getFields(collection) as applySearch sees it
getFields(c) ==
    IF c = "articles"
    THEN <<[name |-> "id", type |-> "integer"],
           [name |-> "title", type |-> "string"],
           [name |-> "views", type |-> "integer"]>>
    ELSE <<>>

\* what the call of applyQuery keeps while a part runs
QueryFrame(call) ==
    [q |-> call.q, next |-> call.next, log |-> call.log,
     result |-> call.result]

\* the call goes on to the statement after a part, which it has applied
\* or passed over
PartDone(call, part, applied) ==
    [call EXCEPT !.next = partAfter(part),
                 !.log = IF applied THEN Append(@, part) ELSE @]

\* the queries applyQuery is run on (articles)
Queries ==
    [sort : {Undef, Arr(<<<<"author", ".", "name">>>>),
             Arr(<<<<"-", "views">>>>)},
     limit : {Undef, Num(-1), Num(0), Num(2)},
     offset : {Undef, Num(0), Num(1)},
     page : {Undef, Num(2)},
     search : {Undef, Str(<<"x">>)},
     group : {Undef, Arr(<<"author">>)},
     aggregate : {Undef, Obj(<<[operation |-> "count",
                                fields |-> Arr(<<"*">>)]>>)},
     filter : {Undef, F1(LeafA),
               F1(PathLeaf(<<"author", "name">>, "_eq", Str(<<"x">>)))}]

NewTarget ==
    [base |-> NoBase, joins |-> <<>>, wheres |-> <<>>, sql |-> NotCompiled,
     orderBy |-> <<>>, limit |-> Undef, offset |-> Undef, groupBy |-> <<>>,
     selects |-> <<>>]

InitQuery ==
    \E q \in Queries :
        /\ inv = <<[phase |-> "idle", collection |-> "articles",
                    subQuery |-> FALSE, q |-> q, next |-> partAfter("start"),
                    log |-> <<>>, result |-> 0]>>
        /\ query = <<NewTarget>>

\* applyQuery is not inside one of the calls it awaits
AtRest(i) == inv[i].phase \in {"idle", "returned"}

\* lines 36-38
QuerySort(i) ==
    /\ AtRest(i)
    /\ inv[i].next = "sort"
    /\ inv' = [inv EXCEPT ![i] =
            IF truthy(inv[i].q.sort)
            THEN SortCall(inv[i].collection, inv[i].q.sort.xs,
                          inv[i].subQuery)
                    @@ QueryFrame(PartDone(inv[i], "sort", TRUE))
            ELSE PartDone(inv[i], "sort", FALSE)]
    /\ UNCHANGED query

\* lines 40-42
QueryLimit(i) ==
    /\ AtRest(i)
    /\ inv[i].next = "limit"
    /\ inv' = [inv EXCEPT ![i] = PartDone(@, "limit", appliesLimit(inv[i].q))]
    /\ query' = [query EXCEPT ![i].limit =
                    IF appliesLimit(inv[i].q) THEN inv[i].q.limit ELSE @]

\* lines 44-46
QueryOffset(i) ==
    /\ AtRest(i)
    /\ inv[i].next = "offset"
    /\ inv' = [inv EXCEPT ![i] = PartDone(@, "offset",
                                          truthy(inv[i].q.offset))]
    /\ query' = [query EXCEPT ![i].offset =
                    IF truthy(inv[i].q.offset) THEN inv[i].q.offset ELSE @]

\* lines 48-50
QueryPage(i) ==
    /\ AtRest(i)
    /\ inv[i].next = "page"
    /\ inv' = [inv EXCEPT ![i] = PartDone(@, "page", appliesPage(inv[i].q))]
    /\ query' = [query EXCEPT ![i].offset =
                    IF appliesPage(inv[i].q)
                    THEN Num(inv[i].q.limit.n * (inv[i].q.page.n - 1))
                    ELSE @]

\* lines 52-54
QuerySearch(i) ==
    /\ AtRest(i)
    /\ inv[i].next = "search"
    /\ inv' = [inv EXCEPT ![i] =
            IF truthy(inv[i].q.search)
            THEN [call |-> "applySearch", phase |-> "called",
                  collection |-> inv[i].collection,
                  subQuery |-> inv[i].subQuery,
                  getFields |-> getFields(inv[i].collection),
                  searchQuery |-> inv[i].q.search]
                    @@ QueryFrame(PartDone(inv[i], "search", TRUE))
            ELSE PartDone(inv[i], "search", FALSE)]
    /\ UNCHANGED query

\* lines 56-60
QueryGroup(i) ==
    /\ AtRest(i)
    /\ inv[i].next = "group"
    /\ inv' = [inv EXCEPT ![i] = PartDone(@, "group", truthy(inv[i].q.group))]
    /\ query' = [query EXCEPT ![i].groupBy =
                    IF truthy(inv[i].q.group)
                    THEN @ \o groupColumns(inv[i].collection,
                                           inv[i].q.group.xs)
                    ELSE @]

\* lines 62-64
QueryAggregate(i) ==
    /\ AtRest(i)
    /\ inv[i].next = "aggregate"
    /\ inv' = [inv EXCEPT ![i] = PartDone(@, "aggregate",
                                          truthy(inv[i].q.aggregate))]
    /\ query' = [query EXCEPT ![i].selects =
                    IF truthy(inv[i].q.aggregate)
                    THEN @ \o applyAggregate(inv[i].q.aggregate.es,
                                             inv[i].collection)
                    ELSE @]

\* lines 66-68
QueryFilter(i) ==
    /\ AtRest(i)
    /\ inv[i].next = "filter"
    /\ inv' = [inv EXCEPT ![i] =
            IF truthy(inv[i].q.filter)
            THEN NewInvocation(inv[i].collection, inv[i].q.filter,
                               inv[i].subQuery, 0)
                    @@ QueryFrame(PartDone(inv[i], "filter", TRUE))
            ELSE PartDone(inv[i], "filter", FALSE)]
    /\ UNCHANGED query

\* line 71: return dbQuery
QueryReturn(i) ==
    /\ AtRest(i)
    /\ inv[i].next = "return"
    /\ inv' = [inv EXCEPT ![i].next = "done", ![i].result = i]
    /\ UNCHANGED query

SearchCalls == {i \in 1..Len(inv) : "searchQuery" \in DOMAIN inv[i]}

NextQuery ==
    \/ QuerySort(1)
    \/ QueryLimit(1)
    \/ QueryOffset(1)
    \/ QueryPage(1)
    \/ QuerySearch(1)
    \/ QueryGroup(1)
    \/ QueryAggregate(1)
    \/ QueryFilter(1)
    \/ QueryReturn(1)
    \/ \E i \in SortCalls : ApplySort(i)
    \/ \E i \in SortCalls : \E k \in SortTasks(i) : SortFollowRelation(i, k)
    \/ \E i \in SortCalls : \E k \in SortTasks(i) : SortColumnPath(i, k)
    \/ \E i \in SortCalls : \E k \in SortTasks(i) : SortReturnEntry(i, k)
    \/ \E i \in SortCalls : SortOrderBy(i)
    \/ \E i \in SearchCalls : ApplySearch(i)
    \/ \E i \in FilterCalls : ApplyFilter(i)
    \/ \E i \in FilterCalls : AddJoins(i)
    \/ \E i \in FilterCalls : FollowRelation(i)
    \/ \E i \in FilterCalls : AddWhereClauses(i)

SpecQuery == InitQuery /\ [][NextQuery]_vars

(***************************************************************************)
(* C21                                                                     *)
(***************************************************************************)
\* the order the parts of a query are to be applied in
PartsInOrder ==
    <<"sort", "limit", "offset", "page", "search", "group", "aggregate",
      "filter">>
PlaceOf(part) == CHOOSE n \in 1..Len(PartsInOrder) : PartsInOrder[n] = part
Applied(i) == {inv[i].log[n] : n \in 1..Len(inv[i].log)}

\* C21: applyQuery applies the parts of a query in the order sort, limit,
\* offset, page, search, group, aggregate, filter, each only when the query
\* has it, all to the one builder it was given, and returns that builder.
\* The parts applied so far are in that order and are parts of the query;
\* a returned call has applied the sort, search, group, aggregate and
\* filter the query has, has returned its builder, and where the page was
\* applied the offset is the page's; joins are only added at the end of the
\* builder's joins, and none is added for the sort once the filter has been
\* started.
C21_PartsAppliedInFixedOrder ==
    /\ [](/\ Len(query) = 1
          /\ \A a \in 1..Len(inv[1].log) : \A b \in 1..Len(inv[1].log) :
                a < b => PlaceOf(inv[1].log[a]) < PlaceOf(inv[1].log[b])
          /\ \A part \in Applied(1) : inv[1].q[part] # Undef)
    /\ [](inv[1].next = "done"
            => /\ inv[1].result = 1
               /\ \A part \in {"sort", "search", "group", "aggregate",
                               "filter"} :
                    inv[1].q[part] # Undef => part \in Applied(1)
               /\ "sort" \in Applied(1)
                    => Len(query[1].orderBy) = Len(inv[1].q.sort.xs)
               /\ "limit" \in Applied(1) => query[1].limit = inv[1].q.limit
               /\ "page" \in Applied(1)
                    => query[1].offset =
                         Num(inv[1].q.limit.n * (inv[1].q.page.n - 1))
               /\ ("offset" \in Applied(1) /\ "page" \notin Applied(1))
                    => query[1].offset = inv[1].q.offset
               /\ "group" \in Applied(1) => query[1].groupBy # <<>>
               /\ "aggregate" \in Applied(1) => query[1].selects # <<>>
               /\ "filter" \in Applied(1) => query[1].wheres # <<>>)
    /\ [][Len(query'[1].joins) > Len(query[1].joins)
            => /\ SubSeq(query'[1].joins, 1, Len(query[1].joins))
                    = query[1].joins
               /\ 1 \in SortCalls => "filter" \notin Applied(1)
               /\ 1 \in FilterCalls => "filter" \in Applied(1)]_vars

\* a call with all eight parts has returned, the join of the sort before
\* the join of the filter
C21_Witness ==
    /\ "q" \in DOMAIN inv[1]
    /\ inv[1].next = "done"
    /\ inv[1].log = PartsInOrder
    /\ Len(query[1].joins) = 2
    /\ Len(query[1].joins[1].pos) = 1
    /\ Len(query[1].orderBy) = 1
    /\ Len(query[1].wheres) = 2

(***************************************************************************)
(* ItemsService.createOne on its own, lines 829-1013, with the steps of    *)
(* its transaction that can throw.  inv[1] is the call; query[1] holds the *)
(* rows, the open transactions, the calls of cache.clear(), the events     *)
(* given to emitter.emitAction and those given to opts.bypassEmitAction.   *)
(***************************************************************************)
\* the steps inside the transaction that can throw without the database
ThrowingSteps ==
    {"hook", "validate", "relations", "o2m", "activity", "revision"}

RevisionRow(item) == [collection |-> "directus_revisions", key |-> item]

\* lines 949-961: revisionsService.createOne through the transaction
saveRevision(db, primaryKey) ==
    [db EXCEPT !.rows = Append(@, RevisionRow(primaryKey))]

\* an await whose rejection is swallowed
afterTransaction_carryOn(threw) == "resolved"

\* line 839: await this.knex.transaction(...) throws out of createOne when
\* the handler threw and gives the primary key otherwise
afterTransaction(threw) == IF threw THEN "rejected" ELSE "resolved"

\* the event of the new item and the events of its nested items
OwnEvent(key) == [event |-> "items.create", key |-> key]
NestedEvents(n) == [m \in 1..n |-> [event |-> "nested", key |-> m]]

OneCalls ==
    [key : PayloadKeys, failsAt : ThrowingSteps \cup {"none"},
     emitEvents : {"undefined", "false"}, bypassEmitAction : BOOLEAN,
     autoPurgeCache : {"undefined", "false"}, cache : BOOLEAN,
     CACHE_AUTO_PURGE : BOOLEAN, accountability : BOOLEAN,
     tracking : {"null", "activity", "all"}, nested : {0, 1}]

InitCreateOne ==
    \E call \in OneCalls :
        /\ inv = <<[call |-> "createOne", phase |-> "called", opts |-> call,
                    primaryKey |-> 0, nestedActionEvents |-> <<>>,
                    err |-> "", rejection |-> "",
                    before |-> <<ItemRow(2)>>]>>
        /\ query = <<[rows |-> <<ItemRow(2)>>, saved |-> <<>>,
                      cacheClears |-> 0, emitted |-> <<>>,
                      bypassed |-> <<>>]>>

\* a step of the handler goes on to the next or throws
StepOf(call, step, next) ==
    IF call.opts.failsAt = step
    THEN [call EXCEPT !.phase = "failed", !.err = step]
    ELSE [call EXCEPT !.phase = next]

\* lines 829-839: the transaction starts
OneBegin(i) ==
    /\ inv[i].phase = "called"
    /\ inv' = [inv EXCEPT ![i].phase = "hook"]
    /\ query' = [query EXCEPT ![i] = begin(@)]

\* lines 855-872: the filter hooks, unless opts.emitEvents is false
OneHook(i) ==
    /\ inv[i].phase = "hook"
    /\ inv' = [inv EXCEPT ![i] =
                IF inv[i].opts.emitEvents # "false"
                THEN StepOf(@, "hook", "validate")
                ELSE [@ EXCEPT !.phase = "validate"]]
    /\ UNCHANGED query

\* lines 873-875: validatePayload, when there is an accountability
OneValidate(i) ==
    /\ inv[i].phase = "validate"
    /\ inv' = [inv EXCEPT ![i] =
                IF inv[i].opts.accountability
                THEN StepOf(@, "validate", "relations")
                ELSE [@ EXCEPT !.phase = "relations"]]
    /\ UNCHANGED query

\* lines 877-889: processM2O, processA2O and processValues
OneRelations(i) ==
    /\ inv[i].phase = "relations"
    /\ inv' = [inv EXCEPT ![i] = StepOf(@, "relations", "insert")]
    /\ UNCHANGED query

\* lines 891-917: the insert and the key of the new row
OneInsert(i) ==
    /\ inv[i].phase = "insert"
    /\ LET key == inv[i].opts.key
           keys == ItemKeys(query[i].rows)
           returnedKey == IF key # 0 THEN key ELSE MaxKey(keys) + 1
       IN  IF key # 0 /\ \E n \in 1..Len(keys) : keys[n] = key
           THEN /\ inv' = [inv EXCEPT ![i].phase = "failed",
                                      ![i].err = "RecordNotUnique"]
                /\ UNCHANGED query
           ELSE /\ inv' = [inv EXCEPT ![i].phase = "o2m",
                                      ![i].primaryKey = returnedKey]
                /\ query' = [query EXCEPT
                                ![i].rows = Append(@, ItemRow(returnedKey))]

\* lines 919-927: processO2M; the events of the nested items are kept
OneO2M(i) ==
    /\ inv[i].phase = "o2m"
    /\ inv' = [inv EXCEPT ![i] =
                [StepOf(@, "o2m", "activity") EXCEPT
                    !.nestedActionEvents =
                        IF inv[i].opts.failsAt = "o2m" THEN @
                        ELSE @ \o NestedEvents(inv[i].opts.nested)]]
    /\ UNCHANGED query

\* lines 929-947: the activity row, when accountability is tracked
OneActivity(i) ==
    /\ inv[i].phase = "activity"
    /\ LET tracked == inv[i].opts.accountability
                        /\ inv[i].opts.tracking # "null"
       IN  /\ inv' = [inv EXCEPT ![i] =
                        IF tracked THEN StepOf(@, "activity", "revision")
                        ELSE [@ EXCEPT !.phase = "commit"]]
           /\ query' = [query EXCEPT ![i] =
                        IF tracked /\ inv[i].opts.failsAt # "activity"
                        THEN saveActivity(@, TRUE, inv[i].primaryKey)
                        ELSE @]

\* lines 949-973: the revision row, when revisions are tracked
OneRevision(i) ==
    /\ inv[i].phase = "revision"
    /\ LET tracked == inv[i].opts.tracking = "all"
       IN  /\ inv' = [inv EXCEPT ![i] =
                        IF tracked THEN StepOf(@, "revision", "commit")
                        ELSE [@ EXCEPT !.phase = "commit"]]
           /\ query' = [query EXCEPT ![i] =
                        IF tracked /\ inv[i].opts.failsAt # "revision"
                        THEN saveRevision(@, inv[i].primaryKey)
                        ELSE @]

\* lines 976 and 839: the handler returns the key, the transaction
\* commits and the await gives the key
OneResolve(i) ==
    /\ inv[i].phase = "commit"
    /\ inv' = [inv EXCEPT ![i].phase = afterTransaction(FALSE)]
    /\ query' = [query EXCEPT ![i] = commit(@)]

\* line 839: the handler threw, the transaction rolls back and the await
\* throws the handler's error
OneReject(i) ==
    /\ inv[i].phase = "failed"
    /\ inv' = [inv EXCEPT ![i].phase = afterTransaction(TRUE),
                          ![i].rejection = inv[i].err]
    /\ query' = [query EXCEPT ![i] = rollback(@)]

\* lines 979-1010: the action event is emitted or handed to
\* opts.bypassEmitAction, the nested events are emitted, cache.clear() is
\* called
OneEmit(i) ==
    /\ inv[i].phase = "resolved"
    /\ inv' = [inv EXCEPT ![i].phase = "emitted"]
    /\ LET emits == inv[i].opts.emitEvents # "false"
           own == OwnEvent(inv[i].primaryKey)
       IN  query' = [query EXCEPT
                ![i].emitted =
                    IF ~emits THEN @
                    ELSE (IF inv[i].opts.bypassEmitAction THEN @
                          ELSE Append(@, own))
                            \o inv[i].nestedActionEvents,
                ![i].bypassed =
                    IF emits /\ inv[i].opts.bypassEmitAction
                    THEN Append(@, own) ELSE @,
                ![i].cacheClears =
                    IF autoPurges(inv[i].opts.cache,
                                  inv[i].opts.CACHE_AUTO_PURGE,
                                  inv[i].opts.autoPurgeCache)
                    THEN @ + 1 ELSE @]

\* line 1012
OneReturn(i) ==
    /\ inv[i].phase = "emitted"
    /\ inv' = [inv EXCEPT ![i].phase = "returned"]
    /\ UNCHANGED query

NextCreateOne ==
    \/ OneBegin(1)
    \/ OneHook(1)
    \/ OneValidate(1)
    \/ OneRelations(1)
    \/ OneInsert(1)
    \/ OneO2M(1)
    \/ OneActivity(1)
    \/ OneRevision(1)
    \/ OneResolve(1)
    \/ OneReject(1)
    \/ OneEmit(1)
    \/ OneReturn(1)

\* every promise of the call settles
SpecCreateOne ==
    InitCreateOne /\ [][NextCreateOne]_vars /\ WF_vars(NextCreateOne)

(***************************************************************************)
(* C22                                                                     *)
(***************************************************************************)
\* C22: when a step inside createOne's transaction throws, createOne
\* rejects with that error, emits no action event, its own or a nested
\* one, and does not clear the cache; action events are emitted only after
\* the transaction has given a primary key.
C22_ThrowInTransactionEmitsNothing ==
    /\ [](inv[1].err # ""
            => /\ query[1].emitted = <<>>
               /\ query[1].bypassed = <<>>
               /\ query[1].cacheClears = 0
               /\ inv[1].phase \in {"failed", "rejected"})
    /\ [](inv[1].phase = "rejected"
            => /\ inv[1].err # ""
               /\ inv[1].rejection = inv[1].err
               /\ query[1].rows = inv[1].before)
    /\ []((query[1].emitted # <<>> \/ query[1].bypassed # <<>>)
            => /\ inv[1].primaryKey # 0
               /\ query[1].saved = <<>>
               /\ ItemRow(inv[1].primaryKey) \in
                    {query[1].rows[n] : n \in 1..Len(query[1].rows)})
    /\ ((inv[1].err # "") ~> (inv[1].phase = "rejected"))

\* the revision of a new item could not be saved: the call is rejected
\* with that error, with a nested event kept and the cache to be purged,
\* and nothing was emitted or cleared
C22_Witness ==
    /\ "call" \in DOMAIN inv[1]
    /\ inv[1].call = "createOne"
    /\ inv[1].phase = "rejected"
    /\ inv[1].rejection = "revision"
    /\ inv[1].nestedActionEvents # <<>>
    /\ inv[1].opts.emitEvents = "undefined"
    /\ autoPurges(inv[1].opts.cache, inv[1].opts.CACHE_AUTO_PURGE,
                  inv[1].opts.autoPurgeCache)
    /\ query[1].emitted = <<>>
    /\ query[1].cacheClears = 0

(***************************************************************************)
(* SubscribeHandler, subscribe.ts.  inv[i] is the i-th call of onMessage   *)
(* and, for a SUBSCRIBE, the subscription object it makes; query[1] holds  *)
(* this.subscriptions and the clients whose socket was closed.  The        *)
(* registry is the sequence of its keys in the order they were made, each  *)
(* with its Set as the sequence of its members in the order they were      *)
(* added; a subscription is named by the call that made it.                *)
(***************************************************************************)
MaxMessages == 2

Clients == {"c1", "c2"}
\* client.accountability?.admin
admin(client) == client = "c2"
\* schema.hasCollection(collection) for a client that is no admin
hasCollection(collection) == collection # "secret"
\* a message without uid
NoUid == "undefined"

\* an UNSUBSCRIBE names no collection: its collection is not read
Messages ==
    [type : {"SUBSCRIBE"}, client : Clients, uid : {"u", NoUid},
     collection : {"items", "secret"}]
        \cup [type : {"UNSUBSCRIBE"}, client : Clients, uid : {"u", NoUid},
              collection : {""}]

RECURSIVE Without(_, _)
Without(ids, gone) ==
    IF ids = <<>> THEN <<>>
    ELSE (IF Head(ids) \in gone THEN <<>> ELSE <<Head(ids)>>)
            \o Without(Tail(ids), gone)

RECURSIVE Members(_)
Members(registry) ==
    IF registry = <<>> THEN <<>>
    ELSE Head(registry).ids \o Members(Tail(registry))

\* lines 209-218: the first subscription with the uid, over the keys and
\* their sets in order; 0 stands for undefined
getSubscription(registry, calls, uid) ==
    LET all == Members(registry)
        found == {n \in 1..Len(all) : calls[all[n]].uid = uid}
    IN  IF found = {} THEN 0
        ELSE all[CHOOSE n \in found : \A m \in found : n <= m]

\* lines 64-70
subscribe(registry, id, collection) ==
    IF \E n \in 1..Len(registry) : registry[n].collection = collection
    THEN [n \in 1..Len(registry) |->
            IF registry[n].collection = collection
            THEN [registry[n] EXCEPT !.ids = Append(@, id)]
            ELSE registry[n]]
    ELSE Append(registry, [collection |-> collection, ids |-> <<id>>])

\* lines 71-93
unsubscribe(registry, calls, client, uid) ==
    LET gone ==
            IF uid # NoUid
            THEN LET subscription == getSubscription(registry, calls, uid)
                 IN  IF subscription # 0 /\ calls[subscription].client = client
                     THEN {subscription}
                     ELSE {}
            ELSE {id \in 1..Len(calls) : calls[id].client = client}
    IN  [n \in 1..Len(registry) |->
            [registry[n] EXCEPT !.ids = Without(@, gone)]]

\* a slip at line 131: every collection taken as accessible
invalidCollection_never(client, collection) == FALSE

\* line 131: !accountability?.admin && !(await schema.hasCollection(...))
invalidCollection(client, collection) ==
    ~admin(client) /\ ~hasCollection(collection)

\* handleWebsocketException(client, err, 'subscribe'): the client is sent
\* the error
handleWebsocketException(call, err) ==
    [call EXCEPT !.pc = "done", !.err = err, !.errorSent = TRUE]

\* lines 138-148: the subscription is made and the one it replaces removed;
\* the call waits for the initial payload
makeSubscription(i) ==
    /\ inv' = [inv EXCEPT ![i].pc = "payload"]
    /\ query' = [query EXCEPT ![1].subscriptions =
                    unsubscribe(@, inv, inv[i].client, inv[i].uid)]

\* the handler is new, or holds the subscription of an earlier SUBSCRIBE
\* of c2 with uid u
Registered ==
    [type |-> "SUBSCRIBE", client |-> "c2", uid |-> "u",
     collection |-> "items", pc |-> "done", err |-> "",
     errorSent |-> FALSE, payloadSent |-> TRUE, dispatched |-> FALSE]

InitSubscribe ==
    \/ /\ inv = <<>>
       /\ query = <<[subscriptions |-> <<>>, closed |-> {}, before |-> 0]>>
    \/ /\ inv = <<Registered>>
       /\ query = <<[subscriptions |-> subscribe(<<>>, 1, "items"),
                     closed |-> {}, before |-> 1]>>

\* line 37 and lines 124-129, 166-168: a message of a client arrives; a
\* SUBSCRIBE runs up to the await of getSchema, an UNSUBSCRIBE to its end
OnMessage(message) ==
    /\ Len(inv) - query[1].before < MaxMessages
    /\ message.client \notin query[1].closed
    /\ inv' = Append(inv,
            [type |-> message.type, client |-> message.client,
             uid |-> message.uid, collection |-> message.collection,
             pc |-> IF message.type = "SUBSCRIBE" THEN "getSchema"
                    ELSE "done",
             err |-> "", errorSent |-> FALSE, payloadSent |-> FALSE,
             dispatched |-> FALSE])
    /\ query' = IF message.type = "UNSUBSCRIBE"
                THEN [query EXCEPT ![1].subscriptions =
                        unsubscribe(@, inv, message.client, message.uid)]
                ELSE query

\* resumed at line 129: an admin goes on to the subscription, any other
\* client waits for hasCollection
GotSchema(i) ==
    /\ inv[i].pc = "getSchema"
    /\ IF admin(inv[i].client)
       THEN makeSubscription(i)
       ELSE /\ inv' = [inv EXCEPT ![i].pc = "hasCollection"]
            /\ UNCHANGED query

\* resumed at line 131
HasCollection(i) ==
    /\ inv[i].pc = "hasCollection"
    /\ IF invalidCollection(inv[i].client, inv[i].collection)
       THEN /\ inv' = [inv EXCEPT ![i] =
                        handleWebsocketException(@, "INVALID_COLLECTION")]
            /\ UNCHANGED query
       ELSE makeSubscription(i)

\* resumed at line 150 or 152 with the payload: lines 155-160; the focus
\* dispatch passes over every subscription, none having a status
GotPayload(i) ==
    /\ inv[i].pc = "payload"
    /\ inv' = [inv EXCEPT ![i].pc = "done", ![i].payloadSent = TRUE]
    /\ query' = [query EXCEPT ![1].subscriptions =
                    subscribe(@, i, inv[i].collection)]

\* the read of the payload at line 150 or 152 threw: lines 161-163
PayloadFailed(i) ==
    /\ inv[i].pc = "payload"
    /\ inv' = [inv EXCEPT ![i] = handleWebsocketException(@, "read")]
    /\ UNCHANGED query

\* lines 44-45: websocket.error or websocket.close of a client
Close(client) ==
    /\ client \notin query[1].closed
    /\ query' = [query EXCEPT
                    ![1].subscriptions = unsubscribe(@, inv, client, NoUid),
                    ![1].closed = @ \cup {client}]
    /\ UNCHANGED inv

\* lines 48-56 and 94-122: an action of a module is dispatched to the
\* subscriptions of its collection
Dispatch(collection) ==
    /\ LET to == {id \in 1..Len(inv) :
                    \E n \in 1..Len(query[1].subscriptions) :
                        /\ query[1].subscriptions[n].collection = collection
                        /\ \E m \in 1..Len(query[1].subscriptions[n].ids) :
                                query[1].subscriptions[n].ids[m] = id}
       IN  inv' = [id \in 1..Len(inv) |->
                    IF id \in to THEN [inv[id] EXCEPT !.dispatched = TRUE]
                    ELSE inv[id]]
    /\ UNCHANGED query

NextSubscribe ==
    \/ \E message \in Messages : OnMessage(message)
    \/ \E i \in 1..Len(inv) : GotSchema(i)
    \/ \E i \in 1..Len(inv) : HasCollection(i)
    \/ \E i \in 1..Len(inv) : GotPayload(i)
    \/ \E i \in 1..Len(inv) : PayloadFailed(i)
    \/ \E client \in Clients : Close(client)
    \/ \E collection \in {"items", "secret"} : Dispatch(collection)

SpecSubscribe == InitSubscribe /\ [][NextSubscribe]_vars

(***************************************************************************)
(* C23, C24, C29                                                           *)
(***************************************************************************)
\* the subscriptions a registry holds
Held(registry) ==
    LET all == Members(registry) IN {all[n] : n \in 1..Len(all)}

\* the places of a registry that hold a subscription of the client with
\* the uid
HeldWith(registry, calls, client, uid) ==
    LET all == Members(registry)
    IN  {n \in 1..Len(all) :
            calls[all[n]].client = client /\ calls[all[n]].uid = uid}

\* C23: a SUBSCRIBE replaces rather than duplicates.  At the step that ends
\* the handling of a SUBSCRIBE with a uid without an error, the registry
\* holds exactly one subscription of that client with that uid.
C23_SubscribeReplaces ==
    [][\A i \in 1..Len(inv) :
        (/\ inv[i].type = "SUBSCRIBE"
         /\ inv[i].uid # NoUid
         /\ inv[i].pc # "done"
         /\ inv'[i].pc = "done"
         /\ inv'[i].err = "")
            => Cardinality(HeldWith(query'[1].subscriptions, inv',
                                    inv[i].client, inv[i].uid)) = 1]_vars

\* C24: a subscription is registered only if no error was thrown while
\* its SUBSCRIBE was handled.  A SUBSCRIBE that ended with an error has no
\* subscription in the registry, no subscription message was sent for it
\* and its client was sent the error; the SUBSCRIBE of a client that is no
\* admin for a collection that does not exist for it ends with that error;
\* and a subscription in the registry, or one a message was sent for, comes
\* from a SUBSCRIBE that has ended without error.
C24_RegisteredOnlyWithoutError ==
    \A i \in 1..Len(inv) :
        inv[i].type = "SUBSCRIBE"
            => /\ inv[i].err # ""
                    => /\ i \notin Held(query[1].subscriptions)
                       /\ ~inv[i].payloadSent
                       /\ ~inv[i].dispatched
                       /\ inv[i].errorSent
               /\ (~admin(inv[i].client) /\ ~hasCollection(inv[i].collection)
                        /\ inv[i].pc \in {"payload", "done"})
                    => inv[i].err = "INVALID_COLLECTION"
               /\ (\/ i \in Held(query[1].subscriptions)
                   \/ inv[i].payloadSent
                   \/ inv[i].dispatched)
                    => inv[i].pc = "done" /\ inv[i].err = ""

\* one SUBSCRIBE has ended on a collection that is not accessible and one
\* on a failed read of the payload, both clients have the error and the
\* registry holds neither
C24_Witness ==
    /\ Len(inv) >= 2
    /\ \E i \in 1..Len(inv) : \E j \in 1..Len(inv) :
        /\ inv[i].type = "SUBSCRIBE" /\ inv[j].type = "SUBSCRIBE"
        /\ inv[i].err = "INVALID_COLLECTION" /\ inv[i].errorSent
        /\ inv[j].err = "read" /\ inv[j].errorSent
        /\ {i, j} \cap Held(query[1].subscriptions) = {}

\* C29: once websocket.close or websocket.error has been handled for a
\* client, the registry holds no subscription of that client.
C29_ClosedClientHoldsNothing ==
    \A i \in Held(query[1].subscriptions) :
        inv[i].client \notin query[1].closed

(***************************************************************************)
(* The alias map and the joins of the builder.                             *)
(***************************************************************************)
\* C25: at every point of a compile, each alias recorded in the alias map
\* names a join that was emitted on the query target; no alias is recorded
\* for a hop that is left without a join.
C25_EveryAliasNamesAJoin ==
    \A i \in Invocations :
        MapAliases(inv[i].aliasMap)
            \subseteq JoinAliases(query[rootQuery(i)].joins)

(***************************************************************************)
(* To-many leaves of the predicate pass.                                   *)
(***************************************************************************)
\* the next leaf of the predicate pass of a compile is a to-many leaf
ToManyLeafNext(i) ==
    /\ inv[i].phase = "where"
    /\ inv[i].whereQueue # <<>>
    /\ LET item == Head(inv[i].whereQueue)
           filterPath == getFilterPath(item.key, item.value)
       IN  getRelationInfo(inv[i].collection,
                           PathRoot(filterPath[1])).relationType
                \in {"o2m", "o2a"}

\* C26: every to-many (o2m / o2a) leaf reached by the predicate pass yields
\* an IN or NOT IN predicate or an error, with subQuery false and true and
\* whatever the length of the path of the leaf; no such leaf is passed
\* over without a predicate.
C26_ToManyLeafYieldsInPredicate ==
    [][\A i \in Invocations :
        (ToManyLeafNext(i) /\ inv'[i] # inv[i])
            => \/ inv'[i].err # ""
               \/ \E n \in (Len(query[rootQuery(i)].wheres) + 1)
                            ..Len(query'[rootQuery(i)].wheres) :
                    query'[rootQuery(i)].wheres[n].fn
                        \in {"whereIn", "whereNotIn"}]_vars

(***************************************************************************)
(* The action events of a batch and its transaction.                       *)
(***************************************************************************)
\* C27: in createMany an items.create action event of a record is emitted
\* only if the enclosing transaction commits.  When a record of the batch
\* fails and the enclosing transaction has rolled back, no action event of
\* an earlier record of the batch has been emitted.
C27_NoEventOfRolledBackBatch ==
    \A i \in 1..Len(inv) :
        inv[i].phase = "rejected" => query[i].emitted = <<>>

(***************************************************************************)
(* upsertOne, lines 1422-1443: two calls on one table.  Each call is       *)
(* suspended at its awaits (getCollection, validateKeys, the select, and   *)
(* inside updateOne / createOne), where the other call may run.            *)
(***************************************************************************)
\* a call of upsertOne with the primary key of its payload (0: none)
UpsertCall(key) ==
    [call |-> "upsertOne", payload |-> key, pc |-> "called",
     primaryKey |-> 0, exists |-> FALSE, err |-> "", result |-> 0]

\* lines 1430-1436: the select for the row with the primary key
existsRow(rows, primaryKey) ==
    primaryKey # 0 /\ \E n \in 1..Len(rows) : rows[n] = ItemRow(primaryKey)

\* a call of updateOne or createOne as upsertOne makes it
Called(fn, key, by) == [fn |-> fn, key |-> key, by |-> by]

InitUpsert ==
    \E first \in PayloadKeys, second \in PayloadKeys,
       rows \in {<<>>, <<ItemRow(2)>>} :
        /\ inv = <<UpsertCall(first), UpsertCall(second)>>
        /\ query = <<[rows |-> rows, log |-> <<>>]>>

\* lines 1423-1424: the primary key field is read and the key is taken from
\* the payload; without a key lines 1426-1436 await nothing
UpsertOne(i) ==
    /\ inv[i].pc = "called"
    /\ inv' = [inv EXCEPT ![i].primaryKey = inv[i].payload,
                          ![i].pc = IF inv[i].payload # 0
                                    THEN "validateKeys" ELSE "branch"]
    /\ UNCHANGED query

\* lines 1426-1428
UpsertValidateKeys(i) ==
    /\ inv[i].pc = "validateKeys"
    /\ inv' = [inv EXCEPT ![i].pc = "select"]
    /\ UNCHANGED query

\* lines 1430-1436: the select resolves with the row as it is now
UpsertExists(i) ==
    /\ inv[i].pc = "select"
    /\ inv' = [inv EXCEPT ![i].pc = "branch",
                          ![i].exists = existsRow(query[1].rows,
                                                  inv[i].primaryKey)]
    /\ UNCHANGED query

\* lines 1438-1439: exists, updateOne is called
UpsertUpdateOne(i) ==
    /\ inv[i].pc = "branch"
    /\ inv[i].exists
    /\ inv' = [inv EXCEPT ![i].pc = "updateOne"]
    /\ query' = [query EXCEPT ![1].log =
                    Append(@, Called("updateOne", inv[i].primaryKey, i))]

\* lines 1440-1441: otherwise createOne is called
UpsertCreateOne(i) ==
    /\ inv[i].pc = "branch"
    /\ ~inv[i].exists
    /\ inv' = [inv EXCEPT ![i].pc = "createOne"]
    /\ query' = [query EXCEPT ![1].log =
                    Append(@, Called("createOne", inv[i].primaryKey, i))]

\* lines 1182-1189: updateOne updates the row and returns the key
UpdateOneReturn(i) ==
    /\ inv[i].pc = "updateOne"
    /\ inv' = [inv EXCEPT ![i].pc = "returned",
                          ![i].result = inv[i].primaryKey]
    /\ UNCHANGED query

\* lines 891-917 and 1012: the insert of createOne; a key the table already
\* holds makes the database throw, a payload without key gets the next key
UpsertInsert(i) ==
    /\ inv[i].pc = "createOne"
    /\ LET key == inv[i].primaryKey
           returnedKey == IF key # 0 THEN key
                          ELSE MaxKey(ItemKeys(query[1].rows)) + 1
       IN  IF existsRow(query[1].rows, key)
           THEN /\ inv' = [inv EXCEPT ![i].pc = "rejected",
                                      ![i].err = "RecordNotUnique"]
                /\ UNCHANGED query
           ELSE /\ inv' = [inv EXCEPT ![i].pc = "returned",
                                      ![i].result = returnedKey]
                /\ query' = [query EXCEPT
                                ![1].rows = Append(@, ItemRow(returnedKey))]

NextUpsert ==
    \/ \E i \in 1..Len(inv) : UpsertOne(i)
    \/ \E i \in 1..Len(inv) : UpsertValidateKeys(i)
    \/ \E i \in 1..Len(inv) : UpsertExists(i)
    \/ \E i \in 1..Len(inv) : UpsertUpdateOne(i)
    \/ \E i \in 1..Len(inv) : UpsertCreateOne(i)
    \/ \E i \in 1..Len(inv) : UpdateOneReturn(i)
    \/ \E i \in 1..Len(inv) : UpsertInsert(i)

SpecUpsert == InitUpsert /\ [][NextUpsert]_vars

\* the calls of createOne made so far for a primary key
CreatesOf(log, key) ==
    {n \in 1..Len(log) : log[n].fn = "createOne" /\ log[n].key = key}

\* C28: upsertOne updates when a row with the primary key of the payload
\* exists and creates otherwise, also when two calls interleave at their
\* awaits: two calls with the same primary key that the table does not
\* hold yet lead to one createOne and one updateOne, so createOne is never
\* called twice for the same primary key.
C28_NeverTwoCreatesForOneKey ==
    \A key \in PayloadKeys \ {0} :
        Cardinality(CreatesOf(query[1].log, key)) <= 1

====
